---- MODULE Spec2Model ----
(***************************************************************************)
(* A model of the calculator core of draymond63/calculator (src-tauri):    *)
(* the unit engine (fields/units.rs, unit_value.rs), the nom parser        *)
(* (parser.rs, parsing_helpers.rs), the tree-walking evaluator             *)
(* (evaluator.rs) and the session loop (main.rs).                          *)
(*                                                                         *)
(* Text is a sequence of one-character strings, a name is such a sequence. *)
(* A float magnitude is an exact rational <<n, d>> with d > 0, or Opaque   *)
(* for a float that is not tracked (irrational, infinite or NaN).          *)
(* A Rust panic (unwrap on None / Err, expect) is the outcome "Abort".     *)
(***************************************************************************)
EXTENDS Integers, Sequences, FiniteSets, TLC

VARIABLES
    mode,       \* which specification is running: "session", "units", "sum", "tex",
                \* "render", "names", "parse", "scope", "frame",
                \* "decompose"
    submitted,  \* the lines evaluate_sequence has taken so far   (main.rs:44)
    context,    \* session Context: [vars, funcs]                 (types.rs:42-46)
    results,    \* evaluate_sequence's results vector              (main.rs:42)
    last,       \* the last evaluated line: its text, its result and the context before it
    uacc,       \* unit arithmetic: the current UnitVal
    ulast,      \* unit arithmetic: the last operation, its operands and its result
    sumst,      \* the sum reduction's loop state                  (evaluator.rs:137-168)
    tex         \* the LaTeX parse under check

vars == <<mode, submitted, context, results, last, uacc, ulast, sumst, tex>>

(***************************************************************************)
(* Integer helpers with Rust's semantics.                                   *)
(***************************************************************************)
Abs(x) == IF x < 0 THEN -x ELSE x

\* i32::signum
signum(x) == IF x > 0 THEN 1 ELSE IF x < 0 THEN -1 ELSE 0

\* Rust's integer `/` truncates toward zero.
TruncDiv(a, b) == signum(a) * signum(b) * (Abs(a) \div Abs(b))

\* Rust's integer `%` has the sign of the dividend.
RustRem(a, b) == a - b * TruncDiv(a, b)

RECURSIVE Gcd(_, _)
Gcd(a, b) == IF b = 0 THEN a ELSE Gcd(b, a % b)

RECURSIVE IntPow(_, _)
IntPow(b, n) == IF n = 0 THEN 1 ELSE b * IntPow(b, n - 1)

RECURSIVE SeqSum(_)
SeqSum(s) == IF s = <<>> THEN 0 ELSE Head(s) + SeqSum(Tail(s))

Min(S) == CHOOSE x \in S : \A y \in S : x <= y

(***************************************************************************)
(* Float magnitudes (f64 in unit_value.rs) as exact rationals.             *)
(***************************************************************************)
Opaque == <<0, 0>>

IsOpaque(r) == r[2] = 0

\* The numerator and the denominator of a tracked float are kept within
\* MaxInt; a float whose exact value needs more is not tracked.
MaxInt == (2^30 - 1) + 2^30

MulFits(x, y) == x = 0 \/ y = 0 \/ Abs(x) <= MaxInt \div Abs(y)

RECURSIVE PowFits(_, _)
PowFits(b, n) == n = 0 \/ (PowFits(b, n - 1) /\ MulFits(IntPow(b, n - 1), b))

\* a * d + b * c, resp. the products of a division or multiplication, fit
SumFits(a, b) ==
    /\ MulFits(a[1], b[2]) /\ MulFits(b[1], a[2]) /\ MulFits(a[2], b[2])
    /\ Abs(a[1] * b[2]) <= MaxInt - Abs(b[1] * a[2])

Rat(n, d) ==
    IF d = 0 THEN Opaque
    ELSE LET g == Gcd(Abs(n), Abs(d))
             s == IF d < 0 THEN -1 ELSE 1
         IN  <<(s * n) \div g, (s * d) \div g>>

RInt(n) == <<n, 1>>

RAdd(a, b) == IF IsOpaque(a) \/ IsOpaque(b) \/ ~SumFits(a, b) THEN Opaque
              ELSE Rat(a[1] * b[2] + b[1] * a[2], a[2] * b[2])

RSub(a, b) == IF IsOpaque(a) \/ IsOpaque(b) \/ ~SumFits(a, b) THEN Opaque
              ELSE Rat(a[1] * b[2] - b[1] * a[2], a[2] * b[2])

RMul(a, b) == IF IsOpaque(a) \/ IsOpaque(b) THEN Opaque
              ELSE IF ~MulFits(a[1], b[1]) \/ ~MulFits(a[2], b[2]) THEN Opaque
              ELSE Rat(a[1] * b[1], a[2] * b[2])

\* x / 0.0 is an infinity or NaN: not tracked.
RDiv(a, b) == IF IsOpaque(a) \/ IsOpaque(b) \/ b[1] = 0 THEN Opaque
              ELSE IF ~MulFits(a[1], b[2]) \/ ~MulFits(a[2], b[1]) THEN Opaque
              ELSE Rat(a[1] * b[2], a[2] * b[1])

\* a <= b for two tracked floats
RLeq(a, b) == a[1] * b[2] <= b[1] * a[2]

\* f64::powi
RPowi(a, n) ==
    IF IsOpaque(a) THEN Opaque
    ELSE IF ~PowFits(a[1], Abs(n)) \/ ~PowFits(a[2], Abs(n)) THEN Opaque
    ELSE IF n >= 0 THEN Rat(IntPow(a[1], n), IntPow(a[2], n))
    ELSE Rat(IntPow(a[2], -n), IntPow(a[1], -n))

\* f64::fract() == 0.0, resp. `x % 1.0 == 0.0`: the float is a whole number.
RIsWhole(a) == ~IsOpaque(a) /\ a[2] = 1

\* The exact k-th root of a non-negative integer when it has one.
HasIntRoot(a, k) == a >= 0 /\ k > 0 /\ \E r \in 0..a : IntPow(r, k) = a

IntRoot(a, k) == CHOOSE r \in 0..a : IntPow(r, k) = a

\* f64::powf(1/n) for a whole n # 0: exact when the rational has an exact root.
RRoot(a, n) ==
    IF IsOpaque(a) \/ n = 0 THEN Opaque
    ELSE LET k == Abs(n)
         IN  IF a[1] > 0 /\ HasIntRoot(a[1], k) /\ HasIntRoot(a[2], k)
             THEN IF n > 0 THEN Rat(IntRoot(a[1], k), IntRoot(a[2], k))
                  ELSE Rat(IntRoot(a[2], k), IntRoot(a[1], k))
             ELSE IF a[1] = 0 /\ n > 0 THEN RInt(0)
             ELSE Opaque

(***************************************************************************)
(* Quantity (fields/units.rs:98-179): seven SI base-dimension exponents.   *)
(***************************************************************************)
NumAxes == 7

Axes == 1..NumAxes

\* The named quantities, each a vector of seven exponents.
unitless == <<0, 0, 0, 0, 0, 0, 0>>
length   == <<1, 0, 0, 0, 0, 0, 0>>
time     == <<0, 1, 0, 0, 0, 0, 0>>
frequency == <<0, -1, 0, 0, 0, 0, 0>>
mass     == <<0, 0, 1, 0, 0, 0, 0>>
current  == <<0, 0, 0, 1, 0, 0, 0>>
temp     == <<0, 0, 0, 0, 1, 0, 0>>
amount   == <<0, 0, 0, 0, 0, 1, 0>>
lumenous == <<0, 0, 0, 0, 0, 0, 1>>
force    == <<1, -2, 1, 0, 0, 0, 0>>
pressure == <<-1, -2, 1, 0, 0, 0, 0>>

\* impl Add for Quantity
QAdd(a, b) == [i \in Axes |-> a[i] + b[i]]

\* impl Sub for Quantity
QSub(a, b) == [i \in Axes |-> a[i] - b[i]]

\* Quantity::dimensionality
dimensionality(q) == SeqSum([i \in Axes |-> Abs(q[i])])

\* Quantity::powi
Quantity_powi(q, n) == [i \in Axes |-> q[i] * n]

\* Quantity::root: Err unless every component is a multiple of n.
Quantity_root(q, n) ==
    IF \E i \in Axes : RustRem(q[i], n) # 0
    THEN [ok |-> FALSE]
    ELSE [ok |-> TRUE, q |-> [i \in Axes |-> TruncDiv(q[i], n)]]

None == [some |-> FALSE]

Some(x) == [some |-> TRUE, v |-> x]

\* Quantity::find_subset_power: the least b / a over the axes both use.
find_subset_power(a, larger) ==
    LET exps == {TruncDiv(larger[i], a[i]) : i \in {j \in Axes : a[j] # 0 /\ larger[j] # 0}}
    IN  IF exps = {} THEN None ELSE Some(Min(exps))

\* Quantity::is_subset, given the power find_subset_power found
is_subset_power(a, q2, p) ==
    IF ~p.some THEN FALSE
    ELSE \A i \in Axes :
            \/ a[i] = 0
            \/ /\ signum(a[i] * signum(p.v)) = signum(q2[i])
               /\ Abs(a[i]) <= Abs(q2[i])

\* Quantity::is_subset
is_subset(a, q2) == is_subset_power(a, q2, find_subset_power(a, q2))

(***************************************************************************)
(* The unit registry (fields/units.rs:192-247).                            *)
(***************************************************************************)
Insert(f, k, v) == [x \in (DOMAIN f) \cup {k} |-> IF x = k THEN v ELSE f[x]]

EmptyMap == <<>>

\* prefix_map: metric prefix character -> power of ten
prefix_map ==
    [c \in {"p", "n", "u", "m", "k", "M", "G", "T"} |->
        CASE c = "p" -> -12 [] c = "n" -> -9 [] c = "u" -> -6 [] c = "m" -> -3
          [] c = "k" -> 3   [] c = "M" -> 6  [] c = "G" -> 9  [] c = "T" -> 12]

Unit_new(scale, q) == [si_scale |-> scale, quantity |-> q]

\* unit_map: unit name -> Unit
unit_map ==
    (<<"P", "a">>      :> Unit_new(RInt(1), pressure))
 @@ (<<"p", "s", "i">> :> Unit_new(Rat(6894757, 1000), pressure))
 @@ (<<"b", "a", "r">> :> Unit_new(RInt(100000), pressure))
 @@ (<<"N">>           :> Unit_new(RInt(1), force))
 @@ (<<"l", "b", "f">> :> Unit_new(Rat(4448222, 1000000), force))
 @@ (<<"m">>           :> Unit_new(RInt(1), length))
 @@ (<<"f", "t">>      :> Unit_new(Rat(3048, 10000), length))
 @@ (<<"i", "n">>      :> Unit_new(Rat(254, 10000), length))
 @@ (<<"s">>           :> Unit_new(RInt(1), time))
 @@ (<<"l", "b">>      :> Unit_new(Rat(4535924, 10000000), mass))
 @@ (<<"k", "g">>      :> Unit_new(RInt(1), mass))
 @@ (<<"g">>           :> Unit_new(Rat(1, 1000), mass))
 @@ (<<"H", "z">>      :> Unit_new(RInt(1), frequency))
 @@ (<<"A">>           :> Unit_new(RInt(1), current))
 @@ (<<"K">>           :> Unit_new(RInt(1), temp))
 @@ (<<"m", "o", "l">> :> Unit_new(RInt(1), amount))
 @@ (<<"c", "d">>      :> Unit_new(RInt(1), lumenous))

\* unit_system()["SI"]
unit_system_SI ==
    {<<"m">>, <<"s">>, <<"k", "g">>, <<"A">>, <<"K">>, <<"c", "d">>, <<"N">>, <<"P", "a">>}

\* unit_system()["US"]
unit_system_US ==
    {<<"f", "t">>, <<"s">>, <<"l", "b">>, <<"A">>, <<"K">>, <<"c", "d">>, <<"l", "b", "f">>}

\* unit_system()
unit_system == [SI |-> unit_system_SI, US |-> unit_system_US]

(***************************************************************************)
(* Unit decomposition (fields/units.rs:50-86).  The registry is a HashMap: *)
(* among the eligible units of the highest score the first one met wins,   *)
(* and the iteration order is arbitrary, so every such unit is a possible  *)
(* choice.  The operator gives the set of possible outcomes.               *)
(***************************************************************************)
max_iter == 5

match_score(name) == dimensionality(unit_map[name].quantity)

\* the loop state after best_unit is taken exp times (fields/units.rs:72-78)
compile_take(st, eligible, n, uq, exp) ==
    [current_quantity |-> [i \in Axes |-> st.current_quantity[i] - uq[i] * exp],
     avail_units |-> eligible,
     used_units |-> Insert(st.used_units, n, exp),
     iterations |-> st.iterations + 1,
     best_unit |-> n,
     exp |-> exp]

\* the variant of the round that takes any eligible unit, whatever its score
compile_any_eligible(st, eligible, top) ==
    {compile_take(st, eligible, n, unit_map[n].quantity,
                  find_subset_power(unit_map[n].quantity, st.current_quantity).v)
     : n \in eligible}

\* the units that can be best_unit: the eligible ones of the highest score
compile_best(st, eligible, top) ==
    {compile_take(st, eligible, n, unit_map[n].quantity,
                  find_subset_power(unit_map[n].quantity, st.current_quantity).v)
     : n \in {m \in eligible : match_score(m) = top}}

\* the round, given the units that are still eligible (fields/units.rs:59-71)
compile_eligible(st, eligible) ==
    IF eligible = {}
    THEN \* best_unit stays "", exp stays 0 and the remainder is unchanged
         {[current_quantity |-> st.current_quantity,
           avail_units |-> {},
           used_units |-> Insert(st.used_units, <<>>, 0),
           iterations |-> st.iterations + 1,
           best_unit |-> <<>>,
           exp |-> 0]}
    ELSE compile_best(st, eligible,
                      CHOOSE t \in {match_score(n) : n \in eligible} :
                          \A o \in eligible : match_score(o) <= t)

\* the variant of the round that does not test the unit against the system
compile_round_any_system(st, system) ==
    IF dimensionality(st.current_quantity) # 0 /\ st.iterations < max_iter
    THEN compile_eligible(st, {n \in st.avail_units :
                                  is_subset(unit_map[n].quantity, st.current_quantity)})
    ELSE {st}

\* One round of the while loop (fields/units.rs:58-80) from the loop state
\* st: the set of loop states the round can end in.
compile_round(st, system) ==
    IF dimensionality(st.current_quantity) # 0 /\ st.iterations < max_iter
    THEN compile_eligible(st, {n \in st.avail_units :
                                  n \in system /\ is_subset(unit_map[n].quantity, st.current_quantity)})
    ELSE {st}

RECURSIVE compile_loop(_, _, _)
compile_loop(states, system, rounds) ==
    IF rounds = 0 THEN states
    ELSE compile_loop(UNION {compile_round(st, system) : st \in states}, system, rounds - 1)

\* the loop state before the first round (fields/units.rs:52-56); best_unit
\* and exp are the locals of the round that was run last
compile_begin(quantity) ==
    [current_quantity |-> quantity,
     avail_units |-> DOMAIN unit_map,
     used_units |-> EmptyMap,
     iterations |-> 0,
     best_unit |-> <<>>,
     exp |-> 0]

\* the result once the loop has ended in st (fields/units.rs:81-85)
compile_end(st) ==
    IF st.iterations >= max_iter
    THEN [ok |-> FALSE, remains |-> st.current_quantity]
    ELSE [ok |-> TRUE, used |-> st.used_units]

\* Unit::compile_used_units: the set of its possible results
compile_used_units(quantity, system) ==
    {compile_end(st) : st \in compile_loop({compile_begin(quantity)}, system, max_iter)}

(***************************************************************************)
(* UnitVal (unit_value.rs).                                                *)
(***************************************************************************)
UnitVal_new(value, quantity) == [value |-> value, quantity |-> quantity]

scalar(value) == UnitVal_new(value, unitless)

is_scalar(uv) == uv.quantity = unitless

\* UnitVal::to_string unwraps compile_used_units (unit_value.rs:42): it
\* panics when the decomposition fails.
to_string_panics(uv) ==
    /\ ~is_scalar(uv)
    /\ \E o \in compile_used_units(uv.quantity, unit_system_SI) : ~o.ok

Ok(v) == [k |-> "Ok", v |-> v]
Err(kind) == [k |-> kind]
Abort == [k |-> "Abort"]

IsOk(r) == r.k = "Ok"
IsErr(r) == r.k \in {"EvalError", "UnitError", "ParseError"}

\* the error of root and as_scalar: the message renders self
render_error(uv) == IF to_string_panics(uv) THEN Abort ELSE Err("UnitError")

\* BaseField::as_scalar; the error message renders self ("{}", self).
as_scalar(uv) ==
    IF uv.quantity # unitless THEN render_error(uv) ELSE Ok(uv.value)

\* UnitVal::powi
powi(uv, n) == UnitVal_new(RPowi(uv.value, n), Quantity_powi(uv.quantity, n))

\* BaseField::root, given the new quantity (unit_value.rs:147-151)
root_quantity(uv, n, new_quantity) ==
    IF new_quantity.ok
    THEN Ok(UnitVal_new(RRoot(uv.value, n.v[1]), new_quantity.q))
    ELSE render_error(uv)

\* BaseField::root, given n.as_scalar() (unit_value.rs:143-146)
root_n(uv, n) ==
    IF ~IsOk(n) THEN n
    ELSE IF ~RIsWhole(n.v) THEN render_error(uv)
    ELSE root_quantity(uv, n, Quantity_root(uv.quantity, n.v[1]))

\* BaseField::root; both error messages render self.
root(uv, nv) == root_n(uv, as_scalar(nv))

\* exp.abs() < 1.0 && (1.0 / exp).fract() == 0.0: exp is 1/n for a whole n, |n| > 1
IsReciprocal(e) == ~IsOpaque(e) /\ Abs(e[1]) = 1 /\ e[2] > 1

\* BaseField::powf for any other exponent: self.as_scalar()?.powf(exp)
powf_value(value) == IF ~IsOk(value) THEN value ELSE Ok(scalar(Opaque))

\* BaseField::powf, given exp.as_scalar()
powf_exp(uv, exp) ==
    IF ~IsOk(exp) THEN exp
    ELSE IF RIsWhole(exp.v) THEN Ok(powi(uv, exp.v[1]))
    ELSE IF IsReciprocal(exp.v) THEN root(uv, scalar(RDiv(RInt(1), exp.v)))
    ELSE powf_value(as_scalar(uv))

\* BaseField::powf
powf(uv, expv) == powf_exp(uv, as_scalar(expv))

\* Ok(x) mapped to Ok(x is whole)
is_whole(s) == IF ~IsOk(s) THEN s ELSE Ok(RIsWhole(s.v))

\* BaseField::fract: as_scalar()? % 1.0; TRUE when the fractional part is 0.
fract_is_zero(uv) == is_whole(as_scalar(uv))

\* impl Mul for UnitVal
mul(a, b) == UnitVal_new(RMul(a.value, b.value), QAdd(a.quantity, b.quantity))

\* impl Div for UnitVal
div(a, b) == UnitVal_new(RDiv(a.value, b.value), QSub(a.quantity, b.quantity))

\* impl Add for UnitVal; the mismatch message renders both operands.
add(a, b) ==
    IF a.quantity # b.quantity
    THEN IF to_string_panics(a) \/ to_string_panics(b) THEN Abort ELSE Err("UnitError")
    ELSE Ok(UnitVal_new(RAdd(a.value, b.value), a.quantity))

\* impl Sub for UnitVal
sub(a, b) ==
    IF a.quantity # b.quantity
    THEN IF to_string_panics(a) \/ to_string_panics(b) THEN Abort ELSE Err("UnitError")
    ELSE Ok(UnitVal_new(RSub(a.value, b.value), a.quantity))

\* UnitVal::from_unit_str: (prefix exponent, unit name), an error, or the
\* panic of `base_unit.unwrap()` on None (unit_value.rs:100).
from_unit_str(unit) ==
    IF unit = <<>> THEN Err("UnitError")
    ELSE IF unit = <<"k", "g">> THEN Ok(<<0, <<"k", "g">>>>)
    ELSE IF Len(unit) > 1 /\ Head(unit) \in DOMAIN prefix_map
         THEN IF Tail(unit) \in DOMAIN unit_map
              THEN Ok(<<prefix_map[Head(unit)], Tail(unit)>>)
              ELSE Err("DefinitionNotFoundError")
    ELSE IF unit \in DOMAIN unit_map
         THEN Ok(<<0, unit>>)
         ELSE Abort

\* Ok of whether r is Ok; a panic stays a panic
valid(r) == IF r = Abort THEN Abort ELSE Ok(IsOk(r))

\* UnitVal::is_valid_unit
is_valid_unit(unit) == valid(from_unit_str(unit))

Pow10(e) == IF ~PowFits(10, Abs(e)) THEN Opaque
            ELSE IF e >= 0 THEN Rat(IntPow(10, e), 1) ELSE Rat(1, IntPow(10, -e))

\* UnitVal::new_value, given the prefix exponent and the base unit
new_value_of(value, prefix, base_unit) ==
    UnitVal_new(RMul(RMul(value, Pow10(prefix)), base_unit.si_scale), base_unit.quantity)

\* UnitVal::new_value, for a unit from_unit_str accepts
new_value(value, unit) ==
    new_value_of(value, from_unit_str(unit).v[1], unit_map[from_unit_str(unit).v[2]])

\* UnitVal::new_identity
new_identity(unit) == new_value(RInt(1), unit)

\* impl TryFrom<&str> for UnitVal, given is_valid_unit's answer
try_from_valid(name, is_valid) ==
    IF is_valid = Abort THEN Abort
    ELSE IF is_valid.v THEN Ok(new_identity(name))
    ELSE Err("UnitError")

\* impl TryFrom<&str> for UnitVal
UnitVal_try_from(name) == try_from_valid(name, is_valid_unit(name))

(***************************************************************************)
(* Unit arithmetic: the values the evaluator can build by multiplying and  *)
(* dividing unit literals, and the operations applied to them.             *)
(***************************************************************************)
MaxDim == 5     \* bound on the total absolute exponent of the accumulated value
MaxPow == 3     \* integer exponents are drawn from -MaxPow..MaxPow
MaxRoot == 3    \* reciprocal exponents are 1/n and -1/n for n in 2..MaxRoot

Idle == [op |-> "none"]

\* unit literals the accumulated value is multiplied by, resp. divided by
MulOperands == {new_identity(u) : u \in {<<"m">>, <<"s">>, <<"k", "g">>, <<"A">>, <<"K">>}}
DivOperands == {new_identity(u) : u \in {<<"s">>}}
\* right operands of + and -
AddOperands == {new_identity(u) : u \in {<<"m">>, <<"N">>}}

Exponents ==
    {scalar(RInt(n)) : n \in (-MaxPow)..MaxPow}
    \cup {scalar(Rat(1, n)) : n \in 2..MaxRoot}
    \cup {scalar(Rat(-1, n)) : n \in 2..MaxRoot}
    \cup {scalar(Rat(2, 3)), scalar(Rat(3, 2))}

InitUnits ==
    /\ mode = "units"
    /\ submitted = <<>>
    /\ context = [vars |-> EmptyMap, funcs |-> EmptyMap]
    /\ results = <<>>
    /\ last = Idle
    /\ uacc = scalar(RInt(1))
    /\ ulast = Idle
    /\ sumst = Idle
    /\ tex = Idle

UnitsFrame == UNCHANGED <<mode, submitted, context, results, last, sumst, tex>>

\* The left operand is built from unit literals with * and / (evaluator.rs:54-55
\* applied to the literals of a compound unit such as m*s/s/s); ulast then
\* records the one operation applied to it.
UnitBuild ==
    /\ mode = "units"
    /\ ulast = Idle
    /\ \E r \in {mul(uacc, b) : b \in MulOperands} \cup {div(uacc, b) : b \in DivOperands} :
          /\ dimensionality(r.quantity) <= MaxDim
          /\ uacc' = r
    /\ UNCHANGED ulast
    /\ UnitsFrame

\* a * b (evaluator.rs:54)
UnitMul ==
    /\ mode = "units"
    /\ ulast = Idle
    /\ \E b \in MulOperands :
          ulast' = [op |-> "mul", a |-> uacc, b |-> b, r |-> Ok(mul(uacc, b))]
    /\ UNCHANGED uacc
    /\ UnitsFrame

\* a / b (evaluator.rs:55)
UnitDiv ==
    /\ mode = "units"
    /\ ulast = Idle
    /\ \E b \in DivOperands \cup {uacc} :
          ulast' = [op |-> "div", a |-> uacc, b |-> b, r |-> Ok(div(uacc, b))]
    /\ UNCHANGED uacc
    /\ UnitsFrame

\* a + b (evaluator.rs:52), with b a unit literal or a value of the same quantity
UnitAdd ==
    /\ mode = "units"
    /\ ulast = Idle
    /\ \E b \in AddOperands \cup {uacc} :
          ulast' = [op |-> "add", a |-> uacc, b |-> b, r |-> add(uacc, b)]
    /\ UNCHANGED uacc
    /\ UnitsFrame

\* a - b (evaluator.rs:53)
UnitSub ==
    /\ mode = "units"
    /\ ulast = Idle
    /\ \E b \in AddOperands \cup {uacc} :
          ulast' = [op |-> "sub", a |-> uacc, b |-> b, r |-> sub(uacc, b)]
    /\ UNCHANGED uacc
    /\ UnitsFrame

\* a ^ x (evaluator.rs:56-58): the accumulated value raised to a scalar, and
\* a scalar raised to the accumulated value
UnitPowf ==
    /\ mode = "units"
    /\ ulast = Idle
    /\ \/ \E x \in Exponents :
             ulast' = [op |-> "powf", a |-> uacc, b |-> x, r |-> powf(uacc, x)]
       \/ ulast' = [op |-> "powf", a |-> scalar(RInt(2)), b |-> uacc,
                    r |-> powf(scalar(RInt(2)), uacc)]
    /\ UNCHANGED uacc
    /\ UnitsFrame

NextUnits == UnitBuild \/ UnitMul \/ UnitDiv \/ UnitAdd \/ UnitSub \/ UnitPowf

SpecUnits == InitUnits /\ [][NextUnits]_vars
(***************************************************************************)
(* Text and the nom combinators the parser is built from.  A parser takes  *)
(* the remaining input and gives Ok with the rest and a value, a           *)
(* recoverable Error, a Failure (nom::Err::Failure, which alt and many0    *)
(* do not recover from), or Abort when the code panics.                    *)
(***************************************************************************)
Chars(str) == [i \in 1..Len(str) |-> SubSeq(str, i, i)]

Digit == {"0", "1", "2", "3", "4", "5", "6", "7", "8", "9"}

Alpha ==
    {"a", "b", "c", "d", "e", "f", "g", "h", "i", "j", "k", "l", "m",
     "n", "o", "p", "q", "r", "s", "t", "u", "v", "w", "x", "y", "z",
     "A", "B", "C", "D", "E", "F", "G", "H", "I", "J", "K", "L", "M",
     "N", "O", "P", "Q", "R", "S", "T", "U", "V", "W", "X", "Y", "Z"}

Space == {" ", "\t"}

DigitVal ==
    ("0" :> 0) @@ ("1" :> 1) @@ ("2" :> 2) @@ ("3" :> 3) @@ ("4" :> 4)
 @@ ("5" :> 5) @@ ("6" :> 6) @@ ("7" :> 7) @@ ("8" :> 8) @@ ("9" :> 9)

POk(rest, v) == [k |-> "Ok", rest |-> rest, v |-> v]
PError == [k |-> "Error"]
PFailure == [k |-> "Failure"]

Drop(s, n) == SubSeq(s, n + 1, Len(s))
Take(s, n) == SubSeq(s, 1, n)

\* the length of the longest prefix of s made of characters of S
RECURSIVE PrefixLen(_, _)
PrefixLen(s, S) ==
    IF s # <<>> /\ Head(s) \in S THEN 1 + PrefixLen(Tail(s), S) ELSE 0

Contains(s, c) == \E i \in DOMAIN s : s[i] = c

\* nom::character::complete::space0
space0(s) == POk(Drop(s, PrefixLen(s, Space)), Take(s, PrefixLen(s, Space)))

\* the first n characters of s taken, an Error when there is none to take
take_n(s, n) == IF n = 0 THEN PError ELSE POk(Drop(s, n), Take(s, n))

\* a nom parser that takes one or more characters of S
take_while1(s, S) == take_n(s, PrefixLen(s, S))

digit1(s) == take_while1(s, Digit)
alpha1(s) == take_while1(s, Alpha)
alphanumeric1(s) == take_while1(s, Alpha \cup Digit)

\* parsing_helpers::tag (and nom's char for a one-character t)
tag(t, s) ==
    IF Len(s) >= Len(t) /\ Take(s, Len(t)) = t
    THEN POk(Drop(s, Len(t)), t)
    ELSE PError

\* alt((tag("("), tag("\\left(")))
open_paren(s) ==
    IF tag(Chars("("), s).k = "Ok" THEN tag(Chars("("), s) ELSE tag(Chars("\\left("), s)

\* alt((tag(")"), tag("\\right)")))
close_paren(s) ==
    IF tag(Chars(")"), s).k = "Ok" THEN tag(Chars(")"), s) ELSE tag(Chars("\\right)"), s)

\* the length of the text before the first '=' (the whole length without one)
RECURSIVE until_eq(_)
until_eq(s) == IF s # <<>> /\ Head(s) # "=" THEN 1 + until_eq(Tail(s)) ELSE 0

\* the text split at its n-th character, an Error when it ends before
split_at(s, n) == IF n < Len(s) THEN POk(Drop(s, n), Take(s, n)) ELSE PError

\* nom::bytes::complete::take_until("="): the value is the text before the
\* first '=', the rest starts at that '='
take_until_eq(s) == split_at(s, until_eq(s))

\* start_alpha's test of what alphanumeric1 took
starts_alphabetic(first) ==
    IF first.k # "Ok" THEN first
    ELSE IF Head(first.v) \in Alpha THEN first
    ELSE PError

\* parsing_helpers::start_alpha
start_alpha(s) == starts_alphabetic(alphanumeric1(space0(s).rest))

\* parsing_helpers::trim: trim(f)(s) is trim(f(space0(s).rest)), the spaces
\* after what f took are skipped
trim(res) ==
    IF res.k # "Ok" THEN res ELSE POk(space0(res.rest).rest, res.v)

\* alt of two parsers: the second is tried when the first gives a recoverable
\* Error
Alt(r1, r2) == IF r1.k # "Error" THEN r1 ELSE r2

\* the closing delimiter of delimited(open, e, close)
Closed(e, close) == IF close.k # "Ok" THEN close ELSE POk(close.rest, e.v)

\* parsing_helpers::mcut: a recoverable error becomes a Failure
mcut(r) == IF r.k = "Error" THEN PFailure ELSE r

\* parsing_helpers::prepend_cut: only the message changes, the error stays
\* recoverable
prepend_cut(r) == IF r.k = "Error" THEN PError ELSE r

(***************************************************************************)
(* Expr and LatexExpr (types.rs:9-29).                                     *)
(***************************************************************************)
ENum(num) == [t |-> "ENum", num |-> num]
EVar(name) == [t |-> "EVar", name |-> name]
EFunc(name, inputs) == [t |-> "EFunc", name |-> name, inputs |-> inputs]
EAdd(a, b) == [t |-> "EAdd", l |-> a, r |-> b]
ESub(a, b) == [t |-> "ESub", l |-> a, r |-> b]
EMul(a, b) == [t |-> "EMul", l |-> a, r |-> b]
EDiv(a, b) == [t |-> "EDiv", l |-> a, r |-> b]
EExp(a, b) == [t |-> "EExp", l |-> a, r |-> b]
ETex(latex_expr) == [t |-> "ETex", tex |-> latex_expr]
EDefVar(name, expr) == [t |-> "EDefVar", name |-> name, expr |-> expr]
EDefFunc(name, params, expr) ==
    [t |-> "EDefFunc", name |-> name, params |-> params, expr |-> expr]

LatexExpr(name, params, superscript, subscript) ==
    [name |-> name, params |-> params, superscript |-> superscript, subscript |-> subscript]

\* std::f64::consts::E and PI: irrational magnitudes, told apart by a tag
const_E == <<1, 0>>
const_PI == <<2, 0>>

(***************************************************************************)
(* The parser (parser.rs).                                                 *)
(***************************************************************************)
RECURSIVE DigitsValue(_)
DigitsValue(ds) ==
    IF ds = <<>> THEN 0
    ELSE 10 * DigitsValue(Take(ds, Len(ds) - 1)) + DigitVal[ds[Len(ds)]]

\* parse_enum / into_enum on a run of digits: f64::from_str
parse_enum(ds) == ENum(scalar(RInt(DigitsValue(ds))))

\* into_enum of "whole.frac"
decimal(whole, frac) ==
    ENum(scalar(Rat(DigitsValue(whole) * IntPow(10, Len(frac)) + DigitsValue(frac),
                    IntPow(10, Len(frac)))))

parse_decimal_frac(whole, frac) ==
    IF frac.k # "Ok" THEN PError ELSE POk(frac.rest, decimal(whole.v, frac.v))

parse_decimal_dot(whole, dot) ==
    IF dot.k # "Ok" THEN PError ELSE parse_decimal_frac(whole, digit1(dot.rest))

parse_decimal_whole(whole) ==
    IF whole.k # "Ok" THEN PError ELSE parse_decimal_dot(whole, tag(<<".">>, whole.rest))

\* parse_decimal: digit1 '.' digit1, no space is skipped around it
parse_decimal(s) == parse_decimal_whole(digit1(s))

\* map(trim(digit1), parse_enum)
parse_integer(int) ==
    IF int.k # "Ok" THEN int ELSE POk(int.rest, parse_enum(int.v))

\* parse_number
parse_number(s) == Alt(parse_decimal(s), parse_integer(trim(digit1(space0(s).rest))))

\* match_const
match_const(name) ==
    IF name = Chars("e") THEN Ok(ENum(scalar(const_E)))
    ELSE IF name = Chars("pi") THEN Ok(ENum(scalar(const_PI)))
    ELSE Err("ParseError")

\* Ok(unit_val) mapped to Ok(ENum(unit_val))
into_ENum(unit_val) == IF IsOk(unit_val) THEN Ok(ENum(unit_val.v)) ELSE unit_val

\* match_unit
match_unit(name) == into_ENum(UnitVal_try_from(name))

\* parse_evar's last two alternatives: a unit, else a variable
parse_evar_unit(name, u) ==
    IF u = Abort THEN Abort
    ELSE IF IsOk(u) THEN u
    ELSE Ok(EVar(name))

\* parse_evar: a constant, else a unit, else a variable; the unit lookup can
\* panic (from_unit_str)
parse_evar(name) ==
    IF IsOk(match_const(name)) THEN match_const(name)
    ELSE parse_evar_unit(name, match_unit(name))

\* map(_, parse_evar) of parse_var_use
parse_var_use_evar(name, e) ==
    IF e = Abort THEN Abort ELSE POk(name.rest, e.v)

parse_var_use_name(name) ==
    IF name.k # "Ok" THEN name ELSE parse_var_use_evar(name, parse_evar(name.v))

\* parse_var_use
parse_var_use(s) == parse_var_use_name(trim(start_alpha(space0(s).rest)))

\* parse_op
parse_op(op, expr1, expr2) ==
    CASE op = Chars("+") -> EAdd(expr1, expr2)
      [] op = Chars("-") -> ESub(expr1, expr2)
      [] op \in {Chars("*"), Chars("\\cdot")} -> EMul(expr1, expr2)
      [] op = Chars("/") -> EDiv(expr1, expr2)
      [] op = Chars("^") -> EExp(expr1, expr2)

\* the first of the tags that matches (alt of tags)
RECURSIVE alt_tag(_, _)
alt_tag(tags, s) ==
    IF tags = <<>> THEN PError
    ELSE IF tag(Head(tags), s).k = "Ok" THEN tag(Head(tags), s)
    ELSE alt_tag(Tail(tags), s)

\* the variant of set_script_param that fills the scripts in the order they
\* are written
set_script_param_in_order(latex_expr, script, expr) ==
    IF ~latex_expr.superscript.some
    THEN Ok([latex_expr EXCEPT !.superscript = Some(expr)])
    ELSE IF ~latex_expr.subscript.some
         THEN Ok([latex_expr EXCEPT !.subscript = Some(expr)])
    ELSE Err("ParseError")

\* LatexExpr::set_script_param ('^' sets the superscript, '_' the subscript):
\* each script is settable at most once, a second assignment is an error
set_script_param(latex_expr, script, expr) ==
    IF script = "^"
    THEN IF latex_expr.superscript.some THEN Err("ParseError")
         ELSE Ok([latex_expr EXCEPT !.superscript = Some(expr)])
    ELSE IF latex_expr.subscript.some THEN Err("ParseError")
         ELSE Ok([latex_expr EXCEPT !.subscript = Some(expr)])

\* the loop over script_params in parse_latex (parser.rs:154-159)
RECURSIVE set_script_params(_, _)
set_script_params_next(r, script_params) ==
    IF ~IsOk(r) THEN r ELSE set_script_params(r.v, Tail(script_params))

set_script_params(latex_expr, script_params) ==
    IF script_params = <<>> THEN Ok(latex_expr)
    ELSE set_script_params_next(set_script_param(latex_expr, Head(script_params).script,
                                                 Head(script_params).expr),
                                script_params)

\* the grammar with the operators of sums and of products exchanged
SplittersExchanged(level) ==
    CASE level = "expr" -> <<Chars("/"), Chars("*"), Chars("\\cdot")>>
      [] level = "term" -> <<Chars("+"), Chars("-")>>
      [] level = "factor" -> <<Chars("^")>>

\* the operators each level of the grammar splits on, in the order alt tries them
Splitters(level) ==
    CASE level = "expr" -> <<Chars("+"), Chars("-")>>
      [] level = "term" -> <<Chars("/"), Chars("*"), Chars("\\cdot")>>
      [] level = "factor" -> <<Chars("^")>>

\* Each rule is a chain of steps; a step takes the results of the steps before
\* it as parameters.
RECURSIVE parse_math_expr(_)
RECURSIVE parse_term(_)
RECURSIVE parse_term_no_fractions(_)
RECURSIVE parse_component(_)
RECURSIVE parse_call_params(_)
RECURSIVE parse_latex(_)
RECURSIVE parse_math_expr_or_def(_)
RECURSIVE many0_ops(_, _, _)
RECURSIVE separated_list0(_, _)
RECURSIVE parse_script_params(_, _)
RECURSIVE parse_brace_params(_, _)

\* many0(tuple((term_splitters, operand))) folded by map_ops: the loop stops,
\* keeping what it has, at the first operator or operand that does not parse
many0_ops_operand(level, s, acc, op, e) ==
    IF e.k = "Error" THEN POk(s, acc)
    ELSE IF e.k # "Ok" THEN e
    ELSE many0_ops(level, e.rest, parse_op(op.v, acc, e.v))

many0_ops_op(level, s, acc, op) ==
    IF op.k # "Ok" THEN POk(s, acc)
    ELSE many0_ops_operand(level, s, acc, op,
                           IF level = "expr" THEN parse_term(op.rest)
                           ELSE parse_term_no_fractions(op.rest))

many0_ops(level, s, acc) == many0_ops_op(level, s, acc, alt_tag(Splitters(level), s))

\* map_ops(first, many0(...)(rest))
map_ops(level, first) ==
    IF first.k # "Ok" THEN first ELSE many0_ops(level, first.rest, first.v)

parse_math_expr(s) == map_ops("expr", parse_term(s))

parse_term(s) == map_ops("term", parse_term_no_fractions(s))

parse_term_no_fractions(s) == map_ops("factor", parse_component(s))

\* parse_parens: trim(delimited(open, parse_math_expr, close))
parse_parens_close(e, close) ==
    IF close.k # "Ok" THEN close ELSE POk(space0(close.rest).rest, e.v)

parse_parens_inner(e) ==
    IF e.k # "Ok" THEN e ELSE parse_parens_close(e, close_paren(e.rest))

parse_parens_open(open) ==
    IF open.k # "Ok" THEN open ELSE parse_parens_inner(parse_math_expr(open.rest))

parse_parens(s) == parse_parens_open(open_paren(space0(s).rest))

\* parse_implicit_multiply: pair(parse_number, parse_term_no_fractions)
parse_implicit_multiply_pair(num, var) ==
    IF var.k # "Ok" THEN var ELSE POk(var.rest, EMul(num.v, var.v))

parse_implicit_multiply_var(num) ==
    IF num.k # "Ok" THEN num
    ELSE parse_implicit_multiply_pair(num, parse_term_no_fractions(num.rest))

parse_implicit_multiply(s) == parse_implicit_multiply_var(parse_number(s))

\* parse_func_call
parse_func_call_make(name, params) ==
    IF params.k # "Ok" THEN params ELSE POk(params.rest, EFunc(name.v, params.v))

parse_func_call_params(name) ==
    IF name.k # "Ok" THEN name ELSE parse_func_call_make(name, parse_call_params(name.rest))

parse_func_call(s) == parse_func_call_params(start_alpha(s))

\* separated_list0(char(','), parse_math_expr); res is what is collected so far
separated_list0_push(s, res, e) ==
    IF e.k = "Error" THEN POk(s, res)
    ELSE IF e.k # "Ok" THEN e
    ELSE separated_list0(e.rest, Append(res, e.v))

separated_list0_item(s, res, sep) ==
    IF sep.k # "Ok" THEN POk(s, res)
    ELSE separated_list0_push(s, res, parse_math_expr(sep.rest))

separated_list0(s, res) ==
    separated_list0_item(s, res, IF res = <<>> THEN POk(s, <<>>) ELSE tag(<<",">>, s))

\* parse_call_params
parse_call_params_close(list) ==
    IF list.k # "Ok" THEN list ELSE Closed(list, close_paren(list.rest))

parse_call_params_list(open) ==
    IF open.k # "Ok" THEN open
    ELSE parse_call_params_close(separated_list0(open.rest, <<>>))

parse_call_params(s) == parse_call_params_list(open_paren(s))

\* parse_latex_param(f): a braced f, else exactly one digit or letter; a
\* Failure inside the braces is dropped (param.is_ok() is all that is asked)
parse_latex_param_evar(s, e) == IF e = Abort THEN Abort ELSE POk(Tail(s), e.v)

parse_latex_param_char(s) ==
    IF s = <<>> THEN PError
    ELSE IF Head(s) \in Digit THEN POk(Tail(s), parse_enum(<<Head(s)>>))
    ELSE IF Head(s) \in Alpha THEN parse_latex_param_evar(s, parse_evar(<<Head(s)>>))
    ELSE PError

parse_latex_param_close(s, param) ==
    IF param.k = "Ok" THEN param ELSE parse_latex_param_char(s)

parse_latex_param_inner(s, inner) ==
    IF inner = Abort THEN Abort
    ELSE IF inner.k # "Ok" THEN parse_latex_param_char(s)
    ELSE parse_latex_param_close(s, Closed(inner, tag(<<"}">>, inner.rest)))

parse_latex_param_open(f, s, open) ==
    IF open.k # "Ok" THEN parse_latex_param_char(s)
    ELSE parse_latex_param_inner(s, IF f = "def" THEN parse_math_expr_or_def(open.rest)
                                    ELSE parse_math_expr(open.rest))

parse_latex_param(f, s) == parse_latex_param_open(f, s, tag(<<"{">>, s))

\* many0(alt((pair(char('^'), ...), pair(char('_'), ...)))) of parse_latex
parse_script_params_push(s, acc, script, param) ==
    IF param.k = "Error" THEN POk(s, acc)
    ELSE IF param.k # "Ok" THEN param
    ELSE parse_script_params(param.rest, Append(acc, [script |-> script, expr |-> param.v]))

parse_script_params_sub(s, acc, low) ==
    IF low.k # "Ok" THEN POk(s, acc)
    ELSE parse_script_params_push(s, acc, "_", parse_latex_param("def", low.rest))

parse_script_params_sup(s, acc, up) ==
    IF up.k # "Ok" THEN parse_script_params_sub(s, acc, tag(<<"_">>, s))
    ELSE parse_script_params_push(s, acc, "^", parse_latex_param("expr", up.rest))

parse_script_params(s, acc) == parse_script_params_sup(s, acc, tag(<<"^">>, s))

\* many0(delimited(tag("{"), parse_math_expr, tag("}")))
parse_brace_params_close(s, acc, e, close) ==
    IF close.k # "Ok" THEN POk(s, acc)
    ELSE parse_brace_params(close.rest, Append(acc, e.v))

parse_brace_params_inner(s, acc, e) ==
    IF e.k = "Error" THEN POk(s, acc)
    ELSE IF e.k # "Ok" THEN e
    ELSE parse_brace_params_close(s, acc, e, tag(<<"}">>, e.rest))

parse_brace_params_open(s, acc, open) ==
    IF open.k # "Ok" THEN POk(s, acc)
    ELSE parse_brace_params_inner(s, acc, parse_math_expr(open.rest))

parse_brace_params(s, acc) == parse_brace_params_open(s, acc, tag(<<"{">>, s))

\* parse_latex
parse_latex_set(rest, latex_expr) ==
    IF ~IsOk(latex_expr) THEN PFailure ELSE POk(rest, ETex(latex_expr.v))

parse_latex_make(func_name, script_params, params) ==
    IF params.k # "Ok" THEN params
    ELSE parse_latex_set(params.rest,
                         set_script_params(LatexExpr(func_name.v, params.v, None, None),
                                           script_params.v))

\* without braces the next term is the one parameter
parse_latex_term(term) ==
    IF term.k # "Ok" THEN term ELSE POk(term.rest, <<term.v>>)

parse_latex_given(func_name, script_params, given) ==
    IF given.k # "Ok" THEN given
    ELSE IF script_params.v = <<>> /\ given.v = <<>> THEN PError
    ELSE IF given.v = <<>>
         THEN parse_latex_make(func_name, script_params, parse_latex_term(parse_term(given.rest)))
    ELSE parse_latex_make(func_name, script_params, given)

parse_latex_params(func_name, script_params) ==
    IF script_params.k # "Ok" THEN script_params
    ELSE parse_latex_given(func_name, script_params,
                           Alt(parse_call_params(script_params.rest),
                               parse_brace_params(script_params.rest, <<>>)))

parse_latex_scripts(func_name) ==
    IF func_name.k # "Ok" THEN PError
    ELSE parse_latex_params(func_name, parse_script_params(func_name.rest, <<>>))

parse_latex_name(slash) ==
    IF slash.k # "Ok" THEN PError ELSE parse_latex_scripts(alpha1(slash.rest))

parse_latex(s) == parse_latex_name(tag(<<"\\">>, s))

\* alt((parse_parens, parse_implicit_multiply, parse_func_call, parse_latex,
\*      parse_number, parse_var_use))
parse_component_alt(input) ==
    Alt(parse_parens(input),
    Alt(parse_implicit_multiply(input),
    Alt(parse_func_call(input),
    Alt(parse_latex(input),
    Alt(parse_number(input), parse_var_use(input))))))

\* parse_component: the leading spaces, then the alternatives
parse_component(s) == parse_component_alt(space0(s).rest)

\* parse_def
parse_def_func(var, expr, params) ==
    IF params.k # "Ok" THEN params
    ELSE IF \E i \in DOMAIN params.v : params.v[i].t # "EVar" THEN PFailure
    ELSE POk(expr.rest,
             EDefFunc(var.v, [i \in DOMAIN params.v |-> params.v[i].name], expr.v))

parse_def_params(var, expr) ==
    IF expr.k # "Ok" THEN expr
    ELSE IF Contains(var.rest, "(")
         THEN parse_def_func(var, expr, mcut(parse_call_params(var.rest)))
    ELSE POk(expr.rest, EDefVar(var.v, expr.v))

parse_def_rhs(split, var) ==
    IF var.k # "Ok" THEN var
    ELSE parse_def_params(var, prepend_cut(parse_math_expr(space0(Tail(split.rest)).rest)))

parse_def_lhs(split) ==
    IF split.k # "Ok" THEN PError
    ELSE IF Contains(split.v, "{") THEN PError
    ELSE parse_def_rhs(split, mcut(trim(start_alpha(space0(split.v).rest))))

parse_def(s) == parse_def_lhs(take_until_eq(s))

\* parse_math_expr_or_def: alt((parse_def, parse_math_expr))
parse_math_expr_or_def(s) == Alt(parse_def(s), parse_math_expr(s))

\* parse: the whole line must be consumed
parse_result(result) ==
    IF result = Abort THEN Abort
    ELSE IF result.k = "Ok" /\ result.rest = <<>> THEN Ok(result.v)
    ELSE Err("ParseError")

parse(input) == parse_result(parse_math_expr_or_def(input))

(***************************************************************************)
(* The evaluator (evaluator.rs), over the UnitVal of unit_value.rs.        *)
(* A result is Ok(value), Err(kind) or Abort.  depth is the room left on   *)
(* the call stack: a user function call deeper than MaxCallDepth is the    *)
(* stack overflow of an endless recursion.                                 *)
(***************************************************************************)
MaxCallDepth == 3

Context_new == [vars |-> EmptyMap, funcs |-> EmptyMap]

\* Ok(value) mapped to Ok(scalar(sqrt(value)))
sqrt_value(value) ==
    IF ~IsOk(value) THEN value ELSE Ok(scalar(RRoot(value.v, 2)))

\* UnitVal::sqrt (units.rs:151-154): the magnitude's root of a scalar
sqrt(uv) == sqrt_value(as_scalar(uv))

\* `as i32` of a whole float
as_i32(r) == r[1]

RECURSIVE eval_expr(_, _, _, _)
RECURSIVE eval_args(_, _, _, _, _, _)
RECURSIVE eval_latex(_, _, _, _)
RECURSIVE eval_mut_context_def(_, _, _, _)

\* Ok(UnitVal::scalar(callable(input.as_scalar()?))): sin, cos and tan give
\* a float that is not tracked
apply_callable(x) == IF ~IsOk(x) THEN x ELSE Ok(scalar(Opaque))

\* apply_default_function once its input is evaluated (evaluator.rs:98-108)
apply_default_input(name, input) ==
    IF ~IsOk(input) THEN input
    ELSE IF name \in {Chars("sin"), Chars("cos"), Chars("tan")}
         THEN apply_callable(as_scalar(input.v))
    ELSE Err("EvalError")

\* apply_default_function: sin, cos, tan of one argument; inputs.get(0) is
\* unwrapped
apply_default_function(name, inputs, ctx, defining, depth) ==
    IF Len(inputs) > 1 THEN Err("EvalError")
    ELSE IF inputs = <<>> THEN Abort
    ELSE apply_default_input(name, eval_expr(inputs[1], ctx, defining, depth))

\* eval_context.vars.insert(param, eval_expr(input)?)
eval_args_insert(params, inputs, eval_context, ctx, defining, depth, v) ==
    IF ~IsOk(v) THEN v
    ELSE eval_args(Tail(params), Tail(inputs),
                   [eval_context EXCEPT !.vars = Insert(@, Head(params), v.v)],
                   ctx, defining, depth)

\* the loop binding the arguments of a user function call (evaluator.rs:80-82):
\* each input is evaluated in the caller's context
eval_args(params, inputs, eval_context, ctx, defining, depth) ==
    IF params = <<>> \/ inputs = <<>> THEN Ok(eval_context)
    ELSE eval_args_insert(params, inputs, eval_context, ctx, defining, depth,
                          eval_expr(Head(inputs), ctx, defining, depth))

\* the binary arms of eval_expr (evaluator.rs:52-58) on the two evaluated
\* operands: the left operand's error comes first
eval_binary(t, a, b) ==
    IF ~IsOk(a) THEN a
    ELSE IF ~IsOk(b) THEN b
    ELSE CASE t = "EAdd" -> add(a.v, b.v)
           [] t = "ESub" -> sub(a.v, b.v)
           [] t = "EMul" -> Ok(mul(a.v, b.v))
           [] t = "EDiv" -> Ok(div(a.v, b.v))
           [] t = "EExp" -> powf(a.v, b.v)

\* eval_expr(func_def, &eval_context, defining) (evaluator.rs:83)
eval_call(func_def, eval_context, defining, depth) ==
    IF ~IsOk(eval_context) THEN eval_context
    ELSE eval_expr(func_def, eval_context.v, defining, depth - 1)

\* the EFunc arm after apply_default_function (evaluator.rs:70-86)
eval_func(expr, ctx, defining, depth, applied_defaulted_func) ==
    IF IsOk(applied_defaulted_func) \/ applied_defaulted_func = Abort
    THEN applied_defaulted_func
    ELSE IF defining.some /\ expr.name = defining.v THEN Err("EvalError")
    ELSE IF expr.name \in DOMAIN ctx.funcs
         THEN IF Len(ctx.funcs[expr.name].params) # Len(expr.inputs) THEN Err("EvalError")
              ELSE IF depth = 0 THEN Abort
              ELSE eval_call(ctx.funcs[expr.name].expr,
                             eval_args(ctx.funcs[expr.name].params, expr.inputs, ctx, ctx,
                                       defining, depth),
                             defining, depth)
    ELSE Err("EvalError")

eval_expr(expr, ctx, defining, depth) ==
    CASE expr.t = "ENum" -> Ok(expr.num)
      [] expr.t \in {"EAdd", "ESub", "EMul", "EDiv", "EExp"} ->
            eval_binary(expr.t, eval_expr(expr.l, ctx, defining, depth),
                        eval_expr(expr.r, ctx, defining, depth))
      [] expr.t = "EVar" ->
            IF defining.some /\ expr.name = defining.v THEN Err("EvalError")
            ELSE IF expr.name \in DOMAIN ctx.vars THEN Ok(ctx.vars[expr.name])
            ELSE Err("EvalError")
      [] expr.t = "EFunc" ->
            eval_func(expr, ctx, defining, depth,
                      apply_default_function(expr.name, expr.inputs, ctx, defining, depth))
      [] expr.t = "ETex" -> eval_latex(expr.tex, ctx, defining, depth)
      [] OTHER -> Err("EvalError")

\* the variant of the EDefVar arm without the duplicate check: the binding
\* is overwritten
define_var_overwrite(var, result, ctx, defining) ==
    IF defining.some THEN [r |-> Err("EvalError"), context |-> ctx]
    ELSE [r |-> Ok(Some(result)), context |-> [ctx EXCEPT !.vars = Insert(@, var, result)]]

\* the variant of the EDefVar arm that inserts before it checks
define_var_insert_first(var, result, ctx, defining) ==
    IF defining.some \/ var \in DOMAIN ctx.vars
    THEN [r |-> Err("EvalError"), context |-> [ctx EXCEPT !.vars = Insert(@, var, result)]]
    ELSE [r |-> Ok(Some(result)), context |-> [ctx EXCEPT !.vars = Insert(@, var, result)]]

\* the EDefVar arm after its right-hand side evaluated (evaluator.rs:16-23):
\* the nested and the duplicate check, then the insert
define_var(var, result, ctx, defining) ==
    IF defining.some THEN [r |-> Err("EvalError"), context |-> ctx]
    ELSE IF var \in DOMAIN ctx.vars THEN [r |-> Err("EvalError"), context |-> ctx]
    ELSE [r |-> Ok(Some(result)), context |-> [ctx EXCEPT !.vars = Insert(@, var, result)]]

\* the EDefVar arm (evaluator.rs:15-23) given its evaluated right-hand side
eval_def_var(expr, ctx, defining, result) ==
    IF ~IsOk(result) THEN [r |-> result, context |-> ctx]
    ELSE define_var(expr.name, result.v, ctx, defining)

\* the variant of the expression arm that keeps the value of the line in
\* the context under the name ans
eval_some_keeping_answer(v, ctx) ==
    [r |-> IF IsOk(v) THEN Ok(Some(v.v)) ELSE v,
     context |-> IF IsOk(v) THEN [ctx EXCEPT !.vars = Insert(@, Chars("ans"), v.v)] ELSE ctx]

\* Ok(Some(eval_expr(...)?)) (evaluator.rs:35)
eval_some(v, ctx) == [r |-> IF IsOk(v) THEN Ok(Some(v.v)) ELSE v, context |-> ctx]

\* eval_mut_context_def: the result and the context it leaves behind
eval_mut_context_def(expr, ctx, defining, depth) ==
    CASE expr.t = "EDefVar" ->
            eval_def_var(expr, ctx, defining,
                         eval_expr(expr.expr, ctx, Some(expr.name), depth))
      [] expr.t = "EDefFunc" ->
            IF defining.some THEN [r |-> Err("EvalError"), context |-> ctx]
            ELSE IF expr.name \in DOMAIN ctx.funcs
                 THEN [r |-> Err("EvalError"), context |-> ctx]
            ELSE [r |-> Ok(None),
                  context |-> [ctx EXCEPT !.funcs =
                                   Insert(@, expr.name,
                                          [params |-> expr.params, expr |-> expr.expr])]]
      [] OTHER -> eval_some(eval_expr(expr, ctx, defining, depth), ctx)

\* eval_mut_context
eval_mut_context(expr, ctx) == eval_mut_context_def(expr, ctx, None, MaxCallDepth)

(***************************************************************************)
(* The sum reduction (evaluator.rs:137-168) as a loop state: the next      *)
(* value i of the bound variable, the exclusive end up, the running sum,   *)
(* the cloned context, and the values of i the body was evaluated for.     *)
(***************************************************************************)
Running == [k |-> "Running"]

SumState(r, i, up, sum, ctx, ub_var, param, defining, rounds) ==
    [r |-> r, i |-> i, up |-> up, sum |-> sum, ctx |-> ctx, ub_var |-> ub_var,
     param |-> param, defining |-> defining, rounds |-> rounds]

\* the reduction ended with r before its loop began
SumEnded(r, ctx, defining) ==
    SumState(r, 0, 0, RInt(0), ctx, None, ENum(scalar(RInt(0))), defining, <<>>)

\* evaluator.rs:154-158: ub is whole too, the loop can begin
sum_ub_whole(expr, ctx, defining, up, def, ub_whole) ==
    IF ~IsOk(ub_whole) THEN SumEnded(ub_whole, ctx, defining)
    ELSE IF ~ub_whole.v THEN SumEnded(Err("EvalError"), ctx, defining)
    ELSE SumState(Running, as_i32(def.r.v.v.value), as_i32(up.v.value) + 1, RInt(0),
                  def.context,
                  IF expr.subscript.v.t = "EDefVar" THEN Some(expr.subscript.v.name) ELSE None,
                  expr.params[1], defining, <<>>)

\* evaluator.rs:154: up.fract()? != 0.0 || ub.fract()? != 0.0
sum_up_whole(expr, ctx, defining, up, def, up_whole) ==
    IF ~IsOk(up_whole) THEN SumEnded(up_whole, ctx, defining)
    ELSE IF ~up_whole.v THEN SumEnded(Err("EvalError"), ctx, defining)
    ELSE sum_ub_whole(expr, ctx, defining, up, def, fract_is_zero(def.r.v.v))

\* evaluator.rs:151: the subscript evaluated into the cloned context; the
\* Option it gives is unwrapped
sum_ub(expr, ctx, defining, up, def) ==
    IF ~IsOk(def.r) THEN SumEnded(def.r, ctx, defining)
    ELSE IF ~def.r.v.some THEN SumEnded(Abort, ctx, defining)
    ELSE sum_up_whole(expr, ctx, defining, up, def, fract_is_zero(up.v))

\* evaluator.rs:144: the superscript evaluated
sum_up(expr, ctx, defining, depth, up) ==
    IF ~IsOk(up) THEN SumEnded(up, ctx, defining)
    ELSE sum_ub(expr, ctx, defining, up,
                eval_mut_context_def(expr.subscript.v, ctx, defining, depth))

\* evaluator.rs:138-160: the checks and the two bounds
sum_start(expr, ctx, defining, depth) ==
    IF Len(expr.params) # 1 \/ ~expr.subscript.some \/ ~expr.superscript.some
    THEN SumEnded(Err("EvalError"), ctx, defining)
    ELSE sum_up(expr, ctx, defining, depth,
                eval_expr(expr.superscript.v, ctx, defining, depth))

\* evaluator.rs:162-164: the bound variable, when there is one, is set to i
sum_context(st) ==
    IF st.ub_var.some
    THEN [st.ctx EXCEPT !.vars = Insert(@, st.ub_var.v, scalar(RInt(st.i)))]
    ELSE st.ctx

\* sum += x
sum_add(st, x) ==
    IF ~IsOk(x) THEN [st EXCEPT !.r = x, !.ctx = sum_context(st)]
    ELSE [st EXCEPT !.i = st.i + 1, !.sum = RAdd(st.sum, x.v), !.ctx = sum_context(st),
                    !.rounds = Append(st.rounds, st.i)]

\* eval_expr(&param, &sum_context, defining)?.as_scalar()?
sum_param(st, v) ==
    IF ~IsOk(v) THEN [st EXCEPT !.r = v, !.ctx = sum_context(st)]
    ELSE sum_add(st, as_scalar(v.v))

\* evaluator.rs:162-165: one round of `for i in ub..up`
sum_round(st, depth) ==
    sum_param(st, eval_expr(st.param, sum_context(st), st.defining, depth))

\* evaluator.rs:167: the loop is over
sum_finish(st) == [st EXCEPT !.r = Ok(scalar(st.sum))]

RECURSIVE sum_loop(_, _)
sum_loop(st, depth) ==
    IF st.r # Running THEN st
    ELSE IF st.i >= st.up THEN sum_finish(st)
    ELSE sum_loop(sum_round(st, depth), depth)

\* Ok(eval_expr(val)?.sqrt()?)
eval_sqrt(val) == IF ~IsOk(val) THEN val ELSE sqrt(val.v)

\* eval_latex: frac, sqrt and sum
eval_latex(expr, ctx, defining, depth) ==
    CASE expr.name = Chars("frac") ->
            IF Len(expr.params) # 2 THEN Err("EvalError")
            ELSE IF expr.subscript.some \/ expr.superscript.some THEN Err("EvalError")
            ELSE eval_binary("EDiv", eval_expr(expr.params[1], ctx, defining, depth),
                             eval_expr(expr.params[2], ctx, defining, depth))
      [] expr.name = Chars("sqrt") ->
            IF Len(expr.params) # 1 THEN Err("EvalError")
            ELSE IF expr.subscript.some \/ expr.superscript.some THEN Err("EvalError")
            ELSE eval_sqrt(eval_expr(expr.params[1], ctx, defining, depth))
      [] expr.name = Chars("sum") ->
            sum_loop(sum_start(expr, ctx, defining, depth), depth).r
      [] OTHER -> Err("EvalError")

(***************************************************************************)
(* The session (main.rs:32-54).                                            *)
(***************************************************************************)
MaxLines == 3   \* a session takes at most MaxLines lines

\* the lines a session is fed
Lines ==
    {Chars(l) : l \in {"", "kx = 2", "kx = 3", "kx", "e = 2", "e", "m = 2", "m",
                       "a = 2", "a", "f(kx) = kx", "f(kx) = 2", "f(1)", "f()", "f(1,2)",
                       "kx = 1 m + 1 s", "2 +"}}

\* evaluate_line after parse(line)?
evaluate_parsed(expr, ctx) ==
    IF ~IsOk(expr) THEN [r |-> expr, context |-> ctx]
    ELSE eval_mut_context(expr.v, ctx)

\* evaluate_line: parse, then evaluate against the session context
evaluate_line(line, ctx) == evaluate_parsed(parse(line), ctx)

\* a panic ends the process: no later line is evaluated, no result is returned
Aborted == last.op = "line" /\ last.r = Abort

Init ==
    /\ mode = "session"
    /\ submitted = <<>>
    /\ context = Context_new
    /\ results = <<>>
    /\ last = Idle
    /\ uacc = scalar(RInt(1))
    /\ ulast = Idle
    /\ sumst = Idle
    /\ tex = Idle

SessionFrame == UNCHANGED <<mode, uacc, ulast, sumst, tex>>

\* evaluate_sequence's loop body for an empty line (main.rs:45-46)
EvaluateEmptyLine ==
    /\ mode = "session"
    /\ ~Aborted
    /\ Len(submitted) < MaxLines
    /\ submitted' = Append(submitted, <<>>)
    /\ results' = Append(results, Ok(None))
    /\ last' = [op |-> "line", line |-> <<>>, r |-> Ok(None), before |-> context]
    /\ UNCHANGED context
    /\ SessionFrame

\* results.push(evaluate_line(line, &mut eval)); a panic unwinds out of
\* evaluate_sequence, so nothing is pushed
push_result(line, e) ==
    /\ submitted' = Append(submitted, line)
    /\ last' = [op |-> "line", line |-> line, r |-> e.r, before |-> context]
    /\ IF e.r = Abort
       THEN UNCHANGED <<context, results>>
       ELSE /\ context' = e.context
            /\ results' = Append(results, e.r)

\* evaluate_sequence's loop body for a non-empty line (main.rs:47-51)
EvaluateLine ==
    /\ mode = "session"
    /\ ~Aborted
    /\ Len(submitted) < MaxLines
    /\ \E line \in Lines \ {<<>>} : push_result(line, evaluate_line(line, context))
    /\ SessionFrame

Next == EvaluateEmptyLine \/ EvaluateLine

Spec == Init /\ [][Next]_vars

(***************************************************************************)
(* Session properties.                                                     *)
(***************************************************************************)
\* what the last line was parsed to
LastParsed == parse(last.line)

\* the last line defines a name the context before it already binds
Redefinition ==
    /\ last.op = "line"
    /\ IsOk(LastParsed)
    /\ \/ LastParsed.v.t = "EDefVar" /\ LastParsed.v.name \in DOMAIN last.before.vars
       \/ LastParsed.v.t = "EDefFunc" /\ LastParsed.v.name \in DOMAIN last.before.funcs

\* C1: after a line `a = <expr>` evaluated successfully to v, a later line
\* consisting only of the name a evaluates to exactly v, for every name the
\* parser accepts on the left-hand side of a definition.
C1_DefinedNameEvaluatesToItsValue ==
    \A j \in 1..(Len(submitted) - 1) :
        LET def == parse(submitted[j])
        IN  (/\ IsOk(def)
             /\ def.v.t = "EDefVar"
             /\ IsOk(results[j])
             /\ submitted[Len(submitted)] = def.v.name)
            => last.r = results[j]

\* `a = 2` succeeds and the line `a` then ends the process
C1_UnregisteredNameAborts ==
    /\ submitted = <<Chars("a = 2"), Chars("a")>>
    /\ results = <<Ok(Some(scalar(RInt(2))))>>
    /\ last.r = Abort

\* a step keeps every binding of the context as it is
BindingsKept ==
    /\ \A n \in DOMAIN context.vars :
          n \in DOMAIN context'.vars /\ context'.vars[n] = context.vars[n]
    /\ \A n \in DOMAIN context.funcs :
          n \in DOMAIN context'.funcs /\ context'.funcs[n] = context.funcs[n]

\* a line defining a bound name again never succeeds; it is an EvalError when
\* it is a function definition or its right-hand side evaluates
RedefinitionRejected ==
    Redefinition =>
        /\ ~IsOk(last.r)
        /\ LastParsed.v.t = "EDefFunc" => last.r = Err("EvalError")
        /\ (/\ LastParsed.v.t = "EDefVar"
            /\ IsOk(eval_expr(LastParsed.v.expr, last.before, Some(LastParsed.v.name),
                              MaxCallDepth)))
           => last.r = Err("EvalError")

C3_WrongArgumentCountIsEvalError ==
    (/\ last.op = "line"
     /\ IsOk(LastParsed)
     /\ LastParsed.v.t = "EFunc"
     /\ LastParsed.v.name \in DOMAIN last.before.funcs
     /\ Len(LastParsed.v.inputs) # Len(last.before.funcs[LastParsed.v.name].params))
    => last.r = Err("EvalError")

\* f has one parameter and the call `f()` ends the process
C3_NoArgumentCallAborts ==
    /\ submitted = <<Chars("f(kx) = kx"), Chars("f()")>>
    /\ Len(last.before.funcs[Chars("f")].params) = 1
    /\ last.r = Abort

\* C4: when parsing or evaluating a line returns a ParseError, an EvalError
\* or a UnitError, the context after the line is the context before it.
C4_FailingLineKeepsContext ==
    (last.op = "line" /\ IsErr(last.r)) => context = last.before

\* a rejected redefinition of kx after kx was bound to 2
C4_FailingLineSeen ==
    /\ last.op = "line"
    /\ last.line = Chars("kx = 3")
    /\ IsErr(last.r)
    /\ Chars("kx") \in DOMAIN last.before.vars
    /\ context = last.before

\* the result evaluate_sequence owes for a line in a context
ResultOf(line, ctx) == IF line = <<>> THEN Ok(None) ELSE evaluate_line(line, ctx).r

\* the context built by the lines that succeed
RECURSIVE ContextBuilt(_)
ContextBuilt(lines) ==
    IF lines = <<>> THEN Context_new
    ELSE LET before == ContextBuilt(SubSeq(lines, 1, Len(lines) - 1))
             line == lines[Len(lines)]
         IN  IF line # <<>> /\ IsOk(evaluate_line(line, before).r)
             THEN evaluate_line(line, before).context
             ELSE before

\* C5: evaluate_sequence never stops at a failure: there is exactly one
\* result per submitted line, and the result at j is what line j gives in
\* the context built by the successful lines before it.
C5_OneResultPerLine ==
    /\ Len(results) = Len(submitted)
    /\ \A j \in 1..Len(results) :
          results[j] = ResultOf(submitted[j], ContextBuilt(SubSeq(submitted, 1, j - 1)))

\* the line `a` ends the process before any result is pushed
C5_NoResultForAbortedLine ==
    /\ submitted = <<Chars("kx = 2"), Chars("a")>>
    /\ Len(results) = 1
    /\ last.r = Abort

(***************************************************************************)
(* A sum reduction round by round: `\sum^{hi}_{name=lo}{body}` is parsed   *)
(* and evaluated in a fresh context, one step of the loop at a time.       *)
(***************************************************************************)
MaxBound == 3   \* the two bounds of a sum are drawn from 0..MaxBound

\* names for the bound variable
SumNames == {Chars("i"), Chars("px"), Chars("nx")}

SumBodies == {"var", "square", "const"}

\* the text of a bound
NumText(n) == <<CHOOSE d \in DOMAIN DigitVal : DigitVal[d] = n>>

\* the text of a body over the bound variable
BodyText(body, name) ==
    CASE body = "var" -> name
      [] body = "square" -> name \o <<"*">> \o name
      [] body = "const" -> <<"2">>

SumText(name, lo, hi, body) ==
    Chars("\\sum^{") \o NumText(hi) \o Chars("}_{") \o name \o <<"=">> \o NumText(lo)
        \o Chars("}{") \o BodyText(body, name) \o <<"}">>

\* eval_latex's sum arm up to its loop, for a parsed line; the parser's panic
\* ends the evaluation before it began
sum_parsed(expr) ==
    IF ~IsOk(expr) THEN SumEnded(expr, Context_new, None)
    ELSE sum_start(expr.v.tex, Context_new, None, MaxCallDepth)

InitSum ==
    /\ mode = "sum"
    /\ submitted = <<>>
    /\ context = Context_new
    /\ results = <<>>
    /\ last = Idle
    /\ uacc = scalar(RInt(1))
    /\ ulast = Idle
    /\ sumst = Idle
    /\ tex = Idle

SumFrame == UNCHANGED <<mode, submitted, context, results, last, uacc, ulast, tex>>

\* evaluator.rs:138-160: the sum is parsed and its bounds are evaluated
SumStart ==
    /\ mode = "sum"
    /\ sumst = Idle
    /\ \E name \in SumNames, lo \in 0..MaxBound, hi \in 0..MaxBound, body \in SumBodies :
          sumst' = [text |-> SumText(name, lo, hi, body), lo |-> lo, hi |-> hi, body |-> body,
                    st |-> sum_parsed(parse(SumText(name, lo, hi, body)))]
    /\ SumFrame

\* evaluator.rs:161-166: one round of the loop
SumRound ==
    /\ mode = "sum"
    /\ sumst # Idle
    /\ sumst.st.r = Running
    /\ sumst.st.i < sumst.st.up
    /\ sumst' = [sumst EXCEPT !.st = sum_round(@, MaxCallDepth)]
    /\ SumFrame

\* evaluator.rs:167: the loop is over, the sum is returned
SumFinish ==
    /\ mode = "sum"
    /\ sumst # Idle
    /\ sumst.st.r = Running
    /\ sumst.st.i >= sumst.st.up
    /\ sumst' = [sumst EXCEPT !.st = sum_finish(@)]
    /\ SumFrame

NextSum == SumStart \/ SumRound \/ SumFinish

SpecSum == InitSum /\ [][NextSum]_vars

\* the value of a body for the bound variable at i
BodyValue(body, i) ==
    CASE body = "var" -> i
      [] body = "square" -> i * i
      [] body = "const" -> 2

RECURSIVE FoldSum(_, _, _)
FoldSum(body, lo, hi) ==
    IF lo > hi THEN 0 ELSE FoldSum(body, lo, hi - 1) + BodyValue(body, hi)

\* C7: a sum with integer bounds lo and hi evaluates its body once for each
\* i = lo, ..., hi in increasing order and returns the fold of the body values
\* with + from 0 (`\sum^{3}_{i=1}{i}` is 6); with lo > hi there is no round and
\* the result is 0.
C7_SumFoldsBodyOverRange ==
    (sumst # Idle /\ sumst.st.r # Running) =>
        /\ sumst.st.rounds = [k \in 1..(sumst.hi - sumst.lo + 1) |-> sumst.lo + k - 1]
        /\ sumst.st.r = Ok(scalar(RInt(FoldSum(sumst.body, sumst.lo, sumst.hi))))

\* `\sum^{3}_{i=1}{i}` ends the process in the parser, no round is run
C7_SumOverIAborts ==
    /\ sumst # Idle
    /\ sumst.text = Chars("\\sum^{3}_{i=1}{i}")
    /\ sumst.st.r = Abort
    /\ sumst.st.rounds = <<>>

(***************************************************************************)
(* The two orders of a LaTeX command's scripts: `\name^{A}_{B}{body}` and  *)
(* `\name_{B}^{A}{body}` are parsed, then evaluated in a fresh context.    *)
(***************************************************************************)
TexNames == {Chars("sum"), Chars("frac")}

TexSupers == {Chars("3"), Chars("1+2"), Chars("kx"), Chars("a"), Chars("2 +")}

TexSubs == {Chars("kx=1"), Chars("nx=0"), Chars("1"), Chars("a"), Chars("2 +")}

TexBodies == {Chars("kx"), Chars("nx+1"), Chars("2")}

Braced(t) == <<"{">> \o t \o <<"}">>

\* superscript first
SupSub(name, A, B, body) ==
    <<"\\">> \o name \o <<"^">> \o Braced(A) \o <<"_">> \o Braced(B) \o Braced(body)

\* subscript first
SubSup(name, A, B, body) ==
    <<"\\">> \o name \o <<"_">> \o Braced(B) \o <<"^">> \o Braced(A) \o Braced(body)

InitTex ==
    /\ mode = "tex"
    /\ submitted = <<>>
    /\ context = Context_new
    /\ results = <<>>
    /\ last = Idle
    /\ uacc = scalar(RInt(1))
    /\ ulast = Idle
    /\ sumst = Idle
    /\ tex = Idle

TexFrame == UNCHANGED <<mode, submitted, context, results, last, uacc, ulast, sumst>>

\* parse (parser.rs:17-31) of the command written in both orders
TexParse ==
    /\ mode = "tex"
    /\ tex = Idle
    /\ \E name \in TexNames, A \in TexSupers, B \in TexSubs, body \in TexBodies :
          tex' = [name |-> name, A |-> A, B |-> B, body |-> body,
                  first |-> parse(SupSub(name, A, B, body)),
                  second |-> parse(SubSup(name, A, B, body)),
                  evaluated |-> FALSE, r1 |-> None, r2 |-> None]
    /\ TexFrame

\* eval_mut_context (evaluator.rs:8-10) of the two parsed expressions
TexEvaluate ==
    /\ mode = "tex"
    /\ tex # Idle
    /\ ~tex.evaluated
    /\ IsOk(tex.first)
    /\ IsOk(tex.second)
    /\ tex' = [tex EXCEPT !.evaluated = TRUE,
                          !.r1 = eval_mut_context(tex.first.v, Context_new).r,
                          !.r2 = eval_mut_context(tex.second.v, Context_new).r]
    /\ TexFrame

NextTex == TexParse \/ TexEvaluate

SpecTex == InitTex /\ [][NextTex]_vars

FiveUnits == <<1, 1, 1, 1, 1, 0, 0>>

\* C6: for values whose quantity vectors differ + and - return a UnitError,
\* for equal vectors they succeed and keep the vector; * and / always succeed
\* with the component-wise sum, respectively difference, of the vectors.
C6_QuantitiesOfArithmetic ==
    /\ ulast.op \in {"add", "sub"} =>
          IF ulast.a.quantity # ulast.b.quantity
          THEN ulast.r = Err("UnitError")
          ELSE IsOk(ulast.r) /\ ulast.r.v.quantity = ulast.a.quantity
    /\ ulast.op = "mul" =>
          IsOk(ulast.r) /\ ulast.r.v.quantity = QAdd(ulast.a.quantity, ulast.b.quantity)
    /\ ulast.op = "div" =>
          IsOk(ulast.r) /\ ulast.r.v.quantity = QSub(ulast.a.quantity, ulast.b.quantity)

\* `1 m*s*kg*A*K + 1 m` ends the process
C6_MismatchedAddAborts ==
    /\ ulast.op = "add"
    /\ ulast.a.quantity = FiveUnits
    /\ ulast.b = new_identity(<<"m">>)
    /\ ulast.r = Abort

\* C9: b ^ x with an x that carries a quantity is an error; with a unitless
\* integer x = n the result's quantity is n times b's quantity.
C9_PowerNeedsUnitlessExponent ==
    ulast.op = "powf" =>
        /\ ulast.b.quantity # unitless => IsErr(ulast.r)
        /\ (ulast.b.quantity = unitless /\ RIsWhole(ulast.b.value)) =>
              /\ IsOk(ulast.r)
              /\ ulast.r.v.quantity = [i \in Axes |-> ulast.b.value[1] * ulast.a.quantity[i]]

\* `2 ^ (1 m*s*kg*A*K)` ends the process
C9_DimensionedExponentAborts ==
    /\ ulast.op = "powf"
    /\ ulast.a = scalar(RInt(2))
    /\ ulast.b.quantity = FiveUnits
    /\ ulast.r = Abort

\* the n of a reciprocal exponent 1/n
ReciprocalOf(e) == e[1] * e[2]

\* C10: b ^ (1/n) of a dimensioned b succeeds exactly when every component of
\* b's quantity is divisible by n, every component then being divided by n,
\* and returns a UnitError when some component is not divisible.
C10_RootDividesQuantity ==
    (/\ ulast.op = "powf"
     /\ ulast.a.quantity # unitless
     /\ ulast.b.quantity = unitless
     /\ IsReciprocal(ulast.b.value)) =>
        IF \A i \in Axes : RustRem(ulast.a.quantity[i], ReciprocalOf(ulast.b.value)) = 0
        THEN /\ IsOk(ulast.r)
             /\ \A i \in Axes :
                   ulast.r.v.quantity[i] * ReciprocalOf(ulast.b.value) = ulast.a.quantity[i]
        ELSE ulast.r = Err("UnitError")

\* `(1 m*s*kg*A*K) ^ (1/2)` ends the process
C10_RootOfFiveUnitsAborts ==
    /\ ulast.op = "powf"
    /\ ulast.a.quantity = FiveUnits
    /\ ulast.b = scalar(Rat(1, 2))
    /\ ulast.r = Abort

\* an exponent that is unitless but neither whole nor the reciprocal of a whole
OtherExponent(x) ==
    /\ is_scalar(x)
    /\ ~IsOpaque(x.value)
    /\ ~RIsWhole(x.value)
    /\ ~IsReciprocal(x.value)

\* C11: for an exponent that is unitless but neither an integer nor the
\* reciprocal of an integer, b ^ x succeeds for every base b, dimensioned
\* bases included, and the result is a unitless scalar.
C11_OtherExponentDropsUnits ==
    (ulast.op = "powf" /\ OtherExponent(ulast.b))
        => (IsOk(ulast.r) /\ is_scalar(ulast.r.v))

\* `(1 m) ^ (2/3)` returns a UnitError
C11_DimensionedBaseIsUnitError ==
    /\ ulast.op = "powf"
    /\ ulast.a = new_identity(<<"m">>)
    /\ ulast.b = scalar(Rat(2, 3))
    /\ ulast.r = Err("UnitError")

(***************************************************************************)
(* Rendering (unit_value.rs:38-68, reached from main.rs:73-74 and from     *)
(* Serialize): a result value is built from unit literals, decomposed one  *)
(* round of compile_used_units at a time, and written as text.             *)
(***************************************************************************)
MaxRenderDim == 5   \* bound on the total absolute exponent of the rendered value
MaxRenderScale == 1 \* the SI magnitude stays within 10^(-3 * MaxRenderScale)..10^(3 * MaxRenderScale)

\* unit literals the value is multiplied by, resp. divided by
RenderMulOperands ==
    {new_identity(u) : u \in {<<"m">>, <<"s">>, <<"k", "g">>, <<"A">>, <<"K">>,
                              <<"k", "m">>, <<"m", "m">>}}
RenderDivOperands == {new_identity(u) : u \in {<<"m">>, <<"k", "g">>}}

InitRender ==
    /\ mode = "render"
    /\ submitted = <<>>
    /\ context = [vars |-> EmptyMap, funcs |-> EmptyMap]
    /\ results = <<>>
    /\ last = Idle
    /\ uacc = scalar(RInt(1))
    /\ ulast = Idle
    /\ sumst = Idle
    /\ tex = Idle

RenderFrame == UNCHANGED <<mode, submitted, context, results, last, sumst, tex>>

\* the value to render is built with * and / (evaluator.rs:54-55)
RenderBuild ==
    /\ mode = "render"
    /\ ulast = Idle
    /\ \E r \in {mul(uacc, b) : b \in RenderMulOperands}
                \cup {div(uacc, b) : b \in RenderDivOperands} :
          /\ dimensionality(r.quantity) <= MaxRenderDim
          /\ RLeq(Pow10(-3 * MaxRenderScale), r.value)
          /\ RLeq(r.value, Pow10(3 * MaxRenderScale))
          /\ uacc' = r
    /\ UNCHANGED ulast
    /\ RenderFrame

\* the while condition of compile_used_units (fields/units.rs:58)
compile_continues(st) ==
    dimensionality(st.current_quantity) # 0 /\ st.iterations < max_iter

\* to_string of a dimensioned value enters compile_used_units
\* (unit_value.rs:39-42, fields/units.rs:51-56)
CompileStart ==
    /\ mode = "render"
    /\ ulast = Idle
    /\ ~is_scalar(uacc)
    /\ ulast' = [op |-> "compile", st |-> compile_begin(uacc.quantity),
                 before |-> uacc.quantity]
    /\ UNCHANGED uacc
    /\ RenderFrame

\* one round of the while loop (fields/units.rs:58-80)
CompileRound ==
    /\ mode = "render"
    /\ ulast.op = "compile"
    /\ compile_continues(ulast.st)
    /\ \E st \in compile_round(ulast.st, unit_system_SI) :
          ulast' = [op |-> "compile", st |-> st, before |-> ulast.st.current_quantity]
    /\ UNCHANGED uacc
    /\ RenderFrame

\* the loop has ended: compile_used_units returns (fields/units.rs:81-85)
CompileEnd ==
    /\ mode = "render"
    /\ ulast.op = "compile"
    /\ ~compile_continues(ulast.st)
    /\ ulast' = [op |-> "compiled", st |-> ulast.st, r |-> compile_end(ulast.st)]
    /\ UNCHANGED uacc
    /\ RenderFrame


(***************************************************************************)
(* The text of a value (fields/units.rs:22-47, unit_value.rs:38-68).       *)
(***************************************************************************)
\* the characters of unit names in the order str compares them (by byte)
AsciiOrder == Chars("ABCDEFGHIJKLMNOPQRSTUVWXYZabcdefghijklmnopqrstuvwxyz")

CharRank(c) == CHOOSE i \in DOMAIN AsciiOrder : AsciiOrder[i] = c

\* a < b for two strs
RECURSIVE StrLess(_, _)
StrLess(a, b) ==
    IF b = <<>> THEN FALSE
    ELSE IF a = <<>> THEN TRUE
    ELSE IF Head(a) # Head(b) THEN CharRank(Head(a)) < CharRank(Head(b))
    ELSE StrLess(Tail(a), Tail(b))

\* the first of the names in sorted order
least_name(names) == CHOOSE n \in names : \A o \in names \ {n} : StrLess(n, o)

\* i32 Display of a number that is not negative
RECURSIVE IntText(_)
IntText(n) ==
    IF n < 10 THEN <<CHOOSE d \in DOMAIN DigitVal : DigitVal[d] = n>>
    ELSE IntText(n \div 10) \o IntText(n % 10)

\* `name` or `name^power` (fields/units.rs:40-44)
unit_power_text(base_unit, power) ==
    IF power = 1 THEN base_unit ELSE base_unit \o <<"^">> \o IntText(power)

\* Unit::get_unit_str: the loop over units.iter().sorted(), names being the
\* units still to come
RECURSIVE get_unit_str_loop(_, _, _, _)
get_unit_str_push(units, names, seen_negatives, unit, base_unit) ==
    get_unit_str_loop(units, names \ {base_unit},
                      seen_negatives \/ units[base_unit] < 0,
                      unit \o (IF units[base_unit] < 0 /\ ~seen_negatives THEN <<"/">> ELSE <<>>)
                           \o unit_power_text(base_unit, Abs(units[base_unit])))

get_unit_str_loop(units, names, seen_negatives, unit) ==
    IF names = {} THEN unit
    ELSE get_unit_str_push(units, names, seen_negatives, unit, least_name(names))

\* Unit::get_unit_str
get_unit_str(units) == get_unit_str_loop(units, DOMAIN units, FALSE, <<>>)

\* Unit::compose: the product of si_scale.powi(exp) over the units
RECURSIVE compose_scale(_, _)
compose_scale(units, names) ==
    IF names = {} THEN RInt(1)
    ELSE RMul(RPowi(unit_map[least_name(names)].si_scale, units[least_name(names)]),
              compose_scale(units, names \ {least_name(names)}))

\* Unit::compose: name and si_scale of the composed unit
compose(units) ==
    [name |-> get_unit_str(units), si_scale |-> compose_scale(units, DOMAIN units)]

\* Unit::from_si
from_si(unit, value) == RDiv(value, unit.si_scale)

\* val.log10().floor() of a positive float: the e with 10^e <= val < 10^(e+1)
RECURSIVE floor_log10_up(_, _)
floor_log10_up(val, e) ==
    IF PowFits(10, e + 1) /\ RLeq(Pow10(e + 1), val) THEN floor_log10_up(val, e + 1) ELSE e

RECURSIVE floor_log10_down(_, _)
floor_log10_down(val, e) ==
    IF ~PowFits(10, -e) \/ RLeq(Pow10(e), val) THEN e ELSE floor_log10_down(val, e - 1)

floor_log10(val) ==
    IF RLeq(RInt(1), val) THEN floor_log10_up(val, 0) ELSE floor_log10_down(val, -1)

\* the digits after the decimal point the float needs, when it has a finite
\* decimal expansion
MaxDecimals == 9

HasDecimals(r, k) ==
    /\ PowFits(10, k)
    /\ MulFits(r[1], IntPow(10, k))
    /\ (r[1] * IntPow(10, k)) % r[2] = 0

IsDecimal(r) == ~IsOpaque(r) /\ \E k \in 0..MaxDecimals : HasDecimals(r, k)

decimals(r) == CHOOSE k \in 0..MaxDecimals :
                  HasDecimals(r, k) /\ \A j \in 0..(k - 1) : ~HasDecimals(r, j)

\* n written with at least k digits
RECURSIVE PadText(_, _)
PadText(n, k) ==
    IF k <= 1 THEN IntText(n) ELSE PadText(n \div 10, k - 1) \o IntText(n % 10)

\* the digits of n with a point before the last k of them
point_text(n, k) ==
    IF k = 0 THEN IntText(n)
    ELSE IntText(n \div IntPow(10, k)) \o <<".">> \o PadText(n % IntPow(10, k), k)

\* the text of a float that is not negative, with k digits after the point
decimal_text(r, k) == point_text((r[1] * IntPow(10, k)) \div r[2], k)

\* f64 Display: the shortest decimal text that reads back as the same float,
\* never in exponent notation.  The text of a float without a finite decimal
\* expansion is its 17 digit rounding, which is not tracked.
f64_to_string(r) ==
    IF ~IsDecimal(r) THEN <<"#">>
    ELSE IF r[1] < 0 THEN <<"-">> \o decimal_text(<<-r[1], r[2]>>, decimals(r))
    ELSE decimal_text(r, decimals(r))

\* prefix_map().get_by_right
prefix_by_right(val_exp) ==
    IF \E c \in DOMAIN prefix_map : prefix_map[c] = val_exp
    THEN Some(CHOOSE c \in DOMAIN prefix_map : prefix_map[c] = val_exp)
    ELSE None

\* format!("{} {}", value, name)
format_value(value, name) == f64_to_string(value) \o <<" ">> \o name

\* to_string, given the prefix that was looked up (unit_value.rs:57-61)
to_string_prefix(val, reduced_val, prefix, base_unit) ==
    IF prefix.some
    THEN f64_to_string(reduced_val) \o <<" ">> \o <<prefix.v>> \o base_unit.name
    ELSE format_value(val, base_unit.name)

\* to_string with one numerator unit, given val_exp reduced to a multiple of 3
\* (unit_value.rs:51-56)
to_string_reduced(val, val_exp, numerator_unit_exp, base_unit) ==
    to_string_prefix(val, RDiv(val, Pow10(val_exp)),
                     prefix_by_right(TruncDiv(val_exp, numerator_unit_exp)), base_unit)

\* to_string with one numerator unit (unit_value.rs:50-61).  The logarithm of
\* a float that is not positive is NaN or -inf: no prefix matches and the
\* value is written as it is.
to_string_numerator(val, numerator_unit_exp, base_unit) ==
    IF IsOpaque(val) \/ val[1] <= 0 THEN format_value(val, base_unit.name)
    ELSE to_string_reduced(val, TruncDiv(floor_log10(val), 3) * 3, numerator_unit_exp,
                           base_unit)

\* to_string, given the composed unit and the numerator units
\* (unit_value.rs:44-66)
to_string_composed(uv, used_units, base_unit, numerator_units) ==
    IF Cardinality(numerator_units) > 1 \/ base_unit.name = Chars("kg")
    THEN format_value(uv.value, base_unit.name)
    ELSE IF numerator_units # {}
         THEN to_string_numerator(from_si(base_unit, uv.value),
                                  used_units[CHOOSE n \in numerator_units : TRUE], base_unit)
    ELSE format_value(from_si(base_unit, uv.value), base_unit.name)

\* to_string of a dimensioned value, given what compile_used_units returned:
\* the unwrap of an Err panics (unit_value.rs:42)
to_string_used(uv, used_units) ==
    IF ~used_units.ok THEN Abort
    ELSE Ok(to_string_composed(uv, used_units.used, compose(used_units.used),
                               {n \in DOMAIN used_units.used : used_units.used[n] > 0}))

\* UnitVal::to_string: the set of its possible outcomes
to_string(uv) ==
    IF is_scalar(uv) THEN {Ok(f64_to_string(uv.value))}
    ELSE {to_string_used(uv, used_units)
          : used_units \in compile_used_units(uv.quantity, unit_system_SI)}

\* to_string of a scalar (unit_value.rs:39-41)
RenderScalar ==
    /\ mode = "render"
    /\ ulast = Idle
    /\ is_scalar(uacc)
    /\ ulast' = [op |-> "rendered", r |-> Ok(f64_to_string(uacc.value))]
    /\ UNCHANGED uacc
    /\ RenderFrame

\* the rest of to_string once compile_used_units has returned
\* (unit_value.rs:42-67)
RenderText ==
    /\ mode = "render"
    /\ ulast.op = "compiled"
    /\ ulast' = [op |-> "rendered", used_units |-> ulast.r,
                 r |-> to_string_used(uacc, ulast.r)]
    /\ UNCHANGED uacc
    /\ RenderFrame

\* the rendered text is evaluated as a line of a new session (main.rs:32-38)
Reparse ==
    /\ mode = "render"
    /\ ulast.op = "rendered"
    /\ IsOk(ulast.r)
    /\ ulast' = [op |-> "reparsed", text |-> ulast.r.v,
                 r |-> evaluate_line(ulast.r.v, Context_new).r]
    /\ UNCHANGED uacc
    /\ RenderFrame

NextRender ==
    \/ RenderBuild
    \/ RenderScalar
    \/ CompileStart
    \/ CompileRound
    \/ CompileEnd
    \/ RenderText
    \/ Reparse

SpecRender == InitRender /\ [][NextRender]_vars

(***************************************************************************)
(* Rendering properties.                                                   *)
(***************************************************************************)
\* a round of the decomposition has just been run
RoundRun == ulast.op = "compile" /\ ulast.st.iterations > 0

\* C12: in every round of compile_used_units the chosen unit taken exp times
\* never overshoots the remainder: on every axis the unit uses, exp times
\* the unit's exponent has the sign of the remainder's exponent and is not
\* larger in absolute value, so the remainder's total absolute exponent
\* strictly decreases in the round.
C12_RoundNeverOvershoots ==
    RoundRun =>
        /\ ulast.st.best_unit \in DOMAIN unit_map
        /\ LET a == unit_map[ulast.st.best_unit].quantity
               k == ulast.st.exp
           IN  \A i \in Axes :
                  a[i] # 0 => /\ signum(k * a[i]) = signum(ulast.before[i])
                              /\ Abs(k * a[i]) <= Abs(ulast.before[i])
        /\ dimensionality(ulast.st.current_quantity) < dimensionality(ulast.before)

\* the first round for 1 s^2/(m kg^2) takes N to the power -2: more than the
\* one m and the two s the remainder has
C12_InverseNewtonOvershoots ==
    /\ RoundRun
    /\ ulast.before = <<-1, 2, -2, 0, 0, 0, 0>>
    /\ ulast.st.best_unit = <<"N">>
    /\ ulast.st.exp = -2
    /\ ulast.st.current_quantity = <<1, -2, 0, 0, 0, 0, 0>>

\* C13: compile_used_units returns its UnitError exactly when the remainder
\* is still not zero once the 5 rounds are used up (a quantity that reaches
\* zero within the 5 rounds, the fifth included, is decomposed), and the
\* error is an error value: rendering does not abort.
C13_ErrorOnlyWithRemainder ==
    /\ ulast.op = "compiled" =>
          (ulast.r.ok <=> dimensionality(ulast.st.current_quantity) = 0)
    /\ ulast.op = "rendered" => ulast.r # Abort

\* 1 m*s*kg*A*K: the fifth round leaves nothing, compile_used_units returns
\* its Err all the same and to_string panics on it
C13_FiveRoundsAbort ==
    /\ ulast.op = "rendered"
    /\ uacc.quantity = FiveUnits
    /\ ~ulast.used_units.ok
    /\ ulast.used_units.remains = unitless
    /\ ulast.r = Abort

\* the texts made of the units of names, each written `name` or `name^|k|`,
\* one after the other in any order
RECURSIVE UnitTexts(_, _)
UnitTexts(units, names) ==
    IF names = {} THEN {<<>>}
    ELSE UNION {{unit_power_text(n, Abs(units[n])) \o rest
                 : rest \in UnitTexts(units, names \ {n})} : n \in names}

\* the unit texts with every unit of a positive exponent before the single
\* `/` and every unit of a negative exponent after it
OrderedUnitTexts(units) ==
    {p \o (IF \E n \in DOMAIN units : units[n] < 0 THEN <<"/">> ELSE <<>>) \o q
     : p \in UnitTexts(units, {n \in DOMAIN units : units[n] > 0}),
       q \in UnitTexts(units, {n \in DOMAIN units : units[n] < 0})}

\* a dimensioned value has been written: its text is the magnitude, a space,
\* an optional prefix and the unit text
Rendered == ulast.op = "rendered" /\ ~is_scalar(uacc) /\ IsOk(ulast.r)

\* what follows the first space of the rendered text
RenderedUnit == Drop(ulast.r.v, PrefixLen(ulast.r.v, Digit \cup {".", "-", "#"}) + 1)

\* C14: in the rendered unit text every unit with a positive exponent is
\* before the single `/` and every unit with a negative exponent is after
\* it, each written as `name` or `name^|k|`, whatever the units' names.
C14_PositiveUnitsBeforeSlash ==
    Rendered =>
        \E pre \in {<<>>} \cup {<<c>> : c \in DOMAIN prefix_map} :
        \E u \in OrderedUnitTexts(ulast.used_units.used) :
            RenderedUnit = pre \o u

\* 1 s/m is written `1 /ms`
C14_SecondPerMetreSlashFirst ==
    /\ Rendered
    /\ uacc = div(new_identity(<<"s">>), new_identity(<<"m">>))
    /\ ulast.r.v = Chars("1 /ms")

\* C15: parsing and evaluating the rendered text of a dimensioned value
\* gives a value with the same quantity vector and an equal SI magnitude.
C15_RenderedTextReadsBack ==
    (ulast.op = "reparsed" /\ ~is_scalar(uacc)) =>
        /\ IsOk(ulast.r)
        /\ ulast.r.v.some
        /\ ulast.r.v.v.quantity = uacc.quantity
        /\ (ulast.r.v.v.value = uacc.value \/ IsOpaque(ulast.r.v.v.value))

\* 1 s/m is written `1 /ms`, which reads back as 1 / (1 ms) = 1000 /s
C15_SecondPerMetreReadsBackAsPerMillisecond ==
    /\ ulast.op = "reparsed"
    /\ uacc = div(new_identity(<<"s">>), new_identity(<<"m">>))
    /\ ulast.text = Chars("1 /ms")
    /\ ulast.r = Ok(Some(UnitVal_new(RInt(1000), <<0, -1, 0, 0, 0, 0, 0>>)))

(***************************************************************************)
(* Name resolution (unit_value.rs:30-32, 79-103; parser.rs:207-228)        *)
(* applied to one name: the registered units, the registered units with a  *)
(* metric prefix, and names that are no unit.                              *)
(***************************************************************************)
PrefixedNames == {<<c>> \o u : c \in DOMAIN prefix_map, u \in DOMAIN unit_map}

OtherNames ==
    {Chars(n) : n \in {"x", "a", "i", "k", "xy", "kx", "px", "e", "pi", "x1", "ol"}}

Names == {<<>>} \cup DOMAIN unit_map \cup PrefixedNames \cup OtherNames

InitNames ==
    /\ mode = "names"
    /\ submitted = <<>>
    /\ context = [vars |-> EmptyMap, funcs |-> EmptyMap]
    /\ results = <<>>
    /\ last = Idle
    /\ uacc = scalar(RInt(1))
    /\ ulast = Idle
    /\ sumst = Idle
    /\ tex = Idle

NamesFrame == UNCHANGED <<mode, submitted, context, results, last, uacc, sumst, tex>>

\* UnitVal::from_unit_str(name)
FromUnitStr ==
    /\ mode = "names"
    /\ ulast = Idle
    /\ \E name \in Names :
          ulast' = [op |-> "from_unit_str", name |-> name, r |-> from_unit_str(name)]
    /\ NamesFrame

\* UnitVal::is_valid_unit(name)
IsValidUnit ==
    /\ mode = "names"
    /\ ulast = Idle
    /\ \E name \in Names :
          ulast' = [op |-> "is_valid_unit", name |-> name, r |-> is_valid_unit(name)]
    /\ NamesFrame

\* parse_var_use on a name token
ParseVarUse ==
    /\ mode = "names"
    /\ ulast = Idle
    /\ \E name \in Names \ {<<>>} :
          ulast' = [op |-> "parse_var_use", name |-> name, r |-> parse_var_use(name)]
    /\ NamesFrame

NextNames == FromUnitStr \/ IsValidUnit \/ ParseVarUse

SpecNames == InitNames /\ [][NextNames]_vars

\* C16: from_unit_str resolves `kg` to the kilogram with prefix exponent 0 and
\* every other registered name to that unit with prefix exponent 0; only a
\* name that is not registered is split into prefix and base; a name that
\* is neither a unit nor a prefixed unit gives an error value.
C16_RegisteredNameIsBareUnit ==
    ulast.op = "from_unit_str" =>
        IF ulast.name \in DOMAIN unit_map
        THEN ulast.r = Ok(<<0, ulast.name>>)
        ELSE IF ulast.name \in PrefixedNames
             THEN ulast.r = Ok(<<prefix_map[Head(ulast.name)], Tail(ulast.name)>>)
        ELSE ulast.r.k \notin {"Ok", "Abort"}

\* `mol` is registered, yet it is split into the prefix m and `ol`
C16_MolIsNotFound ==
    /\ ulast.op = "from_unit_str"
    /\ ulast.name = Chars("mol")
    /\ ulast.r = Err("DefinitionNotFoundError")

\* C20: name resolution of a name token is total and ordered: the constant
\* for `e` and `pi`, otherwise the unit literal of magnitude 1 for a valid
\* unit symbol, otherwise the variable of that name; the parser neither
\* fails nor aborts.
C20_NameResolutionIsTotal ==
    ulast.op = "parse_var_use" =>
        /\ ulast.r.k = "Ok"
        /\ ulast.r.rest = <<>>
        /\ ulast.r.v = IF ulast.name = Chars("e") THEN ENum(scalar(const_E))
                       ELSE IF ulast.name = Chars("pi") THEN ENum(scalar(const_PI))
                       ELSE IF is_valid_unit(ulast.name) = Ok(TRUE)
                            THEN ENum(new_identity(ulast.name))
                       ELSE EVar(ulast.name)

\* the name `x` ends the process
C20_UnregisteredNameAborts ==
    /\ ulast.op = "parse_var_use"
    /\ ulast.name = Chars("x")
    /\ ulast.r = Abort

(***************************************************************************)
(* The parser (parser.rs:17-92) applied to one line: expressions of        *)
(* numbers joined by binary operators, function definitions, and           *)
(* definitions with other left sides.                                      *)
(***************************************************************************)
MaxOps == 4
MaxParams == 2

BinaryOps == {"+", "-", "*", "/", "^"}

\* the i-th number of an expression line: 1, 2, 3, 4, 6, 7, ...
Operand(i) == IF i < 5 THEN i ELSE i + 1

OpSeqs == UNION {[1..n -> BinaryOps] : n \in 1..MaxOps}

\* ` op number` for the operators from the i-th on
RECURSIVE ExprTail(_, _)
ExprTail(ops, i) ==
    IF i > Len(ops) THEN <<>>
    ELSE <<" ", ops[i], " ">> \o IntText(Operand(i + 1)) \o ExprTail(ops, i + 1)

ExprLine(ops) == IntText(Operand(1)) \o ExprTail(ops, 1)

\* the texts written between the parentheses of a definition's left side;
\* bare tells whether the text is a name that is no constant and no unit
ParamItems ==
    { [text |-> Chars("kx"), bare |-> TRUE],
      [text |-> Chars("nx"), bare |-> TRUE],
      [text |-> Chars("x"), bare |-> TRUE],
      [text |-> Chars("2kx"), bare |-> FALSE],
      [text |-> Chars("2x"), bare |-> FALSE],
      [text |-> Chars("2"), bare |-> FALSE],
      [text |-> Chars("m"), bare |-> FALSE],
      [text |-> Chars("e"), bare |-> FALSE],
      [text |-> Chars("g(kx)"), bare |-> FALSE] }

ParamLists == UNION {[1..n -> ParamItems] : n \in 1..MaxParams}

RightSides == {Chars("1"), Chars("kx"), Chars("x")}

RECURSIVE ParamText(_, _)
ParamText(items, i) ==
    IF i > Len(items) THEN <<>>
    ELSE (IF i = 1 THEN <<>> ELSE <<",">>) \o items[i].text \o ParamText(items, i + 1)

FuncDefLine(items, rhs) ==
    Chars("f(") \o ParamText(items, 1) \o Chars(") = ") \o rhs

\* left sides of a definition; wellformed tells whether the text is exactly a
\* name, or a name followed by a parenthesized list
LeftSides ==
    { [text |-> Chars("a"), wellformed |-> TRUE],
      [text |-> Chars("kx"), wellformed |-> TRUE],
      [text |-> Chars("f(kx)"), wellformed |-> TRUE],
      [text |-> Chars("f(kx,nx)"), wellformed |-> TRUE],
      [text |-> Chars("a b"), wellformed |-> FALSE],
      [text |-> Chars("f(x) y"), wellformed |-> FALSE],
      [text |-> Chars("f(kx) nx"), wellformed |-> FALSE],
      [text |-> Chars("f(kx)nx"), wellformed |-> FALSE],
      [text |-> Chars("kx nx(px)"), wellformed |-> FALSE],
      [text |-> Chars("kx + nx"), wellformed |-> FALSE],
      [text |-> Chars("kx)"), wellformed |-> FALSE],
      [text |-> Chars("f(kx"), wellformed |-> FALSE],
      [text |-> Chars("f(kx nx)"), wellformed |-> FALSE],
      [text |-> Chars("2kx"), wellformed |-> FALSE],
      [text |-> Chars("(kx)"), wellformed |-> FALSE],
      [text |-> <<>>, wellformed |-> FALSE] }

DefLine(lhs) == lhs.text \o Chars(" = 3")

InitParse ==
    /\ mode = "parse"
    /\ submitted = <<>>
    /\ context = [vars |-> EmptyMap, funcs |-> EmptyMap]
    /\ results = <<>>
    /\ last = Idle
    /\ uacc = scalar(RInt(1))
    /\ ulast = Idle
    /\ sumst = Idle
    /\ tex = Idle

ParseFrame == UNCHANGED <<mode, submitted, context, results, uacc, ulast, sumst, tex>>

\* parse(line): parse_math_expr_or_def, then the test of the remaining input
parsed_line(form, line, result) ==
    [op |-> "parse", form |-> form, line |-> line, result |-> result,
     r |-> parse_result(result)]

\* parse on an expression of numbers and binary operators
ParseExpression ==
    /\ mode = "parse"
    /\ last = Idle
    /\ \E ops \in OpSeqs :
          last' = parsed_line("expression", ExprLine(ops),
                              parse_math_expr_or_def(ExprLine(ops)))
    /\ ParseFrame

\* parse on `f(<items>) = <expression>`
ParseFunctionDefinition ==
    /\ mode = "parse"
    /\ last = Idle
    /\ \E items \in ParamLists, rhs \in RightSides :
          last' = parsed_line("function", FuncDefLine(items, rhs),
                              parse_math_expr_or_def(FuncDefLine(items, rhs)))
    /\ ParseFrame

\* parse on `<left side> = 3`
ParseDefinition ==
    /\ mode = "parse"
    /\ last = Idle
    /\ \E lhs \in LeftSides :
          last' = parsed_line("definition", DefLine(lhs),
                              parse_math_expr_or_def(DefLine(lhs)))
    /\ ParseFrame

NextParse == ParseExpression \/ ParseFunctionDefinition \/ ParseDefinition

SpecParse == InitParse /\ [][NextParse]_vars

\* C17: a function definition is accepted only if every item of the list on
\* its left side is a bare variable name; with any other item the parse of
\* the line is a hard failure reported as ParseError, and no tree is returned.
C17_NonNameParameterIsParseError ==
    (last.op = "parse" /\ last.form = "function") =>
        \A items \in ParamLists, rhs \in RightSides :
            (last.line = FuncDefLine(items, rhs)
             /\ \E i \in DOMAIN items : ~items[i].bare)
            => /\ last.result = PFailure
               /\ last.r = Err("ParseError")

\* `f(2x) = x` ends the process
C17_ProductOfXAborts ==
    /\ last.op = "parse"
    /\ last.line = Chars("f(2x) = x")
    /\ last.r = Abort

\* C18: a definition line whose left side is not exactly a name, or a name
\* followed by a parenthesized list, makes parse return ParseError.
C18_MalformedLeftSideIsParseError ==
    (last.op = "parse" /\ last.form = "definition") =>
        \A lhs \in LeftSides :
            (last.line = DefLine(lhs) /\ ~lhs.wellformed)
            => last.r = Err("ParseError")

\* `a b = 3` is accepted as the definition of a
C18_ExtraTokenIsAccepted ==
    /\ last.op = "parse"
    /\ last.line = Chars("a b = 3")
    /\ last.r = Ok(EDefVar(Chars("a"), ENum(scalar(RInt(3)))))

\* the tree of the operands lo..hi joined by the operators between them:
\* split at the last + or -, else at the last * or /, else at the first ^
RECURSIVE PrecedenceTree(_, _, _)
LastOf(ops, lo, hi, S) ==
    CHOOSE i \in lo..(hi - 1) :
        ops[i] \in S /\ \A j \in (i + 1)..(hi - 1) : ops[j] \notin S

NodeOf(op, l, r) ==
    CASE op = "+" -> EAdd(l, r)
      [] op = "-" -> ESub(l, r)
      [] op = "*" -> EMul(l, r)
      [] op = "/" -> EDiv(l, r)
      [] op = "^" -> EExp(l, r)

SplitAt(ops, lo, hi) ==
    IF \E i \in lo..(hi - 1) : ops[i] \in {"+", "-"} THEN LastOf(ops, lo, hi, {"+", "-"})
    ELSE IF \E i \in lo..(hi - 1) : ops[i] \in {"*", "/"}
         THEN LastOf(ops, lo, hi, {"*", "/"})
    ELSE lo

PrecedenceTree(ops, lo, hi) ==
    IF lo = hi THEN ENum(scalar(RInt(Operand(lo))))
    ELSE NodeOf(ops[SplitAt(ops, lo, hi)],
                PrecedenceTree(ops, lo, SplitAt(ops, lo, hi)),
                PrecedenceTree(ops, SplitAt(ops, lo, hi) + 1, hi))

OpsOf(line) == SelectSeq(line, LAMBDA c : c \in BinaryOps)

\* C19: the tree of an expression follows precedence and associativity:
\* + and - bind loosest and associate to the left, * and / bind tighter and
\* associate to the left, ^ binds tightest and associates to the right.
C19_TreeFollowsPrecedence ==
    (last.op = "parse" /\ last.form = "expression") =>
        /\ last.line = ExprLine(OpsOf(last.line))
        /\ last.r = Ok(PrecedenceTree(OpsOf(last.line), 1, Len(OpsOf(last.line)) + 1))

\* `1 * 2 + 3 / 4 ^ 6` is (1*2) + (3/(4^6))
C19_MultiLevelExpression ==
    /\ last.op = "parse"
    /\ last.line = Chars("1 * 2 + 3 / 4 ^ 6")
    /\ last.r = Ok(EAdd(EMul(ENum(scalar(RInt(1))), ENum(scalar(RInt(2)))),
                        EDiv(ENum(scalar(RInt(3))),
                             EExp(ENum(scalar(RInt(4))), ENum(scalar(RInt(6)))))))

(***************************************************************************)
(* Sessions of definitions, calls and sums (main.rs:32-54,                 *)
(* evaluator.rs:8-168): self-reference, parameters, late binding, the      *)
(* bound variable of a sum, and names bound twice.                         *)
(***************************************************************************)
MaxScopeLines == 3

SumLine == Chars("\\sum^{3}_{px=1}{px}")

ScopeLines ==
    {Chars(l) : l \in {"kx = 2", "kx = 1 + kx * 2", "a = a + 1", "kx = nx + 1", "nx = 2",
                       "px = 5", "f(kx) = 1 + f(kx)", "f(1)", "f(x, y) = x + y",
                       "g(kx) = kx + 1", "g(1)", "kx = g(1)", "px = g(kx)",
                       "h(kx) = kx + nx", "h(1)", "v(kx) = kx + y",
                       "kx(nx) = nx", "g = 2", "sin(0)", "kx = w(1)"}}
    \cup {SumLine, Chars("kx = ") \o SumLine, Chars("w(nx) = ") \o SumLine}

InitScope ==
    /\ mode = "scope"
    /\ submitted = <<>>
    /\ context = Context_new
    /\ results = <<>>
    /\ last = Idle
    /\ uacc = scalar(RInt(1))
    /\ ulast = Idle
    /\ sumst = Idle
    /\ tex = Idle

\* evaluate_sequence's loop body (main.rs:47-51) on a line of ScopeLines
EvaluateScopeLine ==
    /\ mode = "scope"
    /\ ~Aborted
    /\ Len(submitted) < MaxScopeLines
    /\ \E line \in ScopeLines : push_result(line, evaluate_line(line, context))
    /\ SessionFrame

NextScope == EvaluateScopeLine

SpecScope == InitScope /\ [][NextScope]_vars

\* the variable definitions of ScopeLines whose right-hand side names the
\* variable being defined
SelfReferences == {Chars("kx = 1 + kx * 2"), Chars("a = a + 1")}

\* C21: a variable definition whose right-hand side references the name
\* being defined returns an EvalError and creates no binding, whether or not
\* the name is bound; a reference to another undefined name is an EvalError.
C21_SelfReferenceIsEvalError ==
    /\ (last.op = "line" /\ last.line \in SelfReferences)
       => (last.r = Err("EvalError") /\ context = last.before)
    /\ (/\ last.op = "line"
        /\ last.line = Chars("kx = nx + 1")
        /\ Chars("nx") \notin DOMAIN last.before.vars)
       => (last.r = Err("EvalError") /\ context = last.before)

\* `a = a + 1` ends the process
C21_SelfReferenceOfAAborts ==
    /\ last.op = "line"
    /\ last.line = Chars("a = a + 1")
    /\ last.r = Abort

\* the function definitions of ScopeLines whose body calls the function
\* being defined
SelfCalls == {Chars("f(kx) = 1 + f(kx)")}

\* C22: a function definition whose body calls the function being defined
\* returns an EvalError and stores no function binding.
C22_SelfCallIsRejected ==
    (last.op = "line" /\ last.line \in SelfCalls)
    => (last.r = Err("EvalError") /\ context = last.before)

\* `f(kx) = 1 + f(kx)` was accepted and stored, and the call `f(1)` ends the
\* process
C22_SelfCallIsStoredAndOverflows ==
    /\ submitted = <<Chars("f(kx) = 1 + f(kx)"), Chars("f(1)")>>
    /\ results = <<Ok(None)>>
    /\ Chars("f") \in DOMAIN context.funcs
    /\ last.r = Abort

\* g is bound as defined by the line `g(kx) = kx + 1`
GBound(ctx) ==
    /\ Chars("g") \in DOMAIN ctx.funcs
    /\ ctx.funcs[Chars("g")].params = <<Chars("kx")>>

\* C23: the arguments of a call of a user function are evaluated in the
\* caller's context, and inside the body a parameter denotes its argument
\* even when the caller's context binds the same name, at the top level of a
\* line and inside the right-hand side of a variable definition.
C23_ParametersDenoteArguments ==
    (last.op = "line" /\ GBound(last.before)) =>
        /\ last.line = Chars("g(1)") => last.r = Ok(Some(scalar(RInt(2))))
        /\ (/\ last.line = Chars("px = g(kx)")
            /\ Chars("kx") \in DOMAIN last.before.vars
            /\ Chars("px") \notin DOMAIN last.before.vars)
           => last.r = Ok(Some(add(last.before.vars[Chars("kx")], scalar(RInt(1))).v))
        /\ (last.line = Chars("kx = g(1)") /\ Chars("kx") \notin DOMAIN last.before.vars)
           => last.r = Ok(Some(scalar(RInt(2))))

\* with g(kx) = kx + 1, the definition `kx = g(1)` is an EvalError
C23_ParameterNamedAsDefinedVariable ==
    /\ submitted = <<Chars("g(kx) = kx + 1"), Chars("kx = g(1)")>>
    /\ last.r = Err("EvalError")
    /\ Chars("kx") \notin DOMAIN context.vars

\* the function definitions of ScopeLines whose body references a name that
\* is no parameter, with the name of the function
LateBodies ==
    { [line |-> Chars("h(kx) = kx + nx"), name |-> Chars("h")],
      [line |-> Chars("v(kx) = kx + y"), name |-> Chars("v")] }

\* C24: function bodies are bound late: the definition succeeds even when
\* the body references names not yet defined, a call made before they are
\* defined returns an EvalError, and a call made after they are defined
\* evaluates the body against the bindings present at the call.
C24_BodiesAreBoundLate ==
    /\ \A d \in LateBodies :
          (last.op = "line" /\ last.line = d.line /\ d.name \notin DOMAIN last.before.funcs)
          => (last.r = Ok(None) /\ d.name \in DOMAIN context.funcs)
    /\ (/\ last.op = "line"
        /\ last.line = Chars("h(1)")
        /\ Chars("h") \in DOMAIN last.before.funcs)
       => IF Chars("nx") \in DOMAIN last.before.vars
          THEN last.r = Ok(Some(add(scalar(RInt(1)), last.before.vars[Chars("nx")]).v))
          ELSE last.r = Err("EvalError")

\* the definition `v(kx) = kx + y` ends the process
C24_BodyOverYAborts ==
    /\ last.op = "line"
    /\ last.line = Chars("v(kx) = kx + y")
    /\ last.r = Abort
    /\ Chars("v") \notin DOMAIN context.funcs

(***************************************************************************)
(* Sessions of lines of every kind of root (main.rs:32-54): arithmetic, a  *)
(* variable reference, calls, LaTeX commands, and definitions.             *)
(***************************************************************************)
MaxFrameLines == 3

FrameLines ==
    {Chars(l) : l \in {"1 + 2", "kx", "kx = 2", "nx = kx + 1", "g(kx) = kx + 1", "g(3)",
                       "sin(0)", "\\frac{1}{2}", "\\sqrt{4}"}}
    \cup {SumLine}

InitFrame ==
    /\ mode = "frame"
    /\ submitted = <<>>
    /\ context = Context_new
    /\ results = <<>>
    /\ last = Idle
    /\ uacc = scalar(RInt(1))
    /\ ulast = Idle
    /\ sumst = Idle
    /\ tex = Idle

\* evaluate_sequence's loop body (main.rs:47-51) on a line of FrameLines
EvaluateFrameLine ==
    /\ mode = "frame"
    /\ ~Aborted
    /\ Len(submitted) < MaxFrameLines
    /\ \E line \in FrameLines : push_result(line, evaluate_line(line, context))
    /\ SessionFrame

NextFrame == EvaluateFrameLine

SpecFrame == InitFrame /\ [][NextFrame]_vars

\* the entries of map `after` are those of `before` and one more, for name
OneEntryAdded(before, after, name) ==
    /\ name \notin DOMAIN before
    /\ DOMAIN after = DOMAIN before \cup {name}
    /\ \A n \in DOMAIN before : after[n] = before[n]

\* what a line does to the context, given what the line was parsed to
FrameOf(parsed) ==
    IF IsOk(parsed) /\ parsed.v.t = "EDefVar" /\ IsOk(last.r)
    THEN /\ OneEntryAdded(last.before.vars, context.vars, parsed.v.name)
         /\ context.funcs = last.before.funcs
    ELSE IF IsOk(parsed) /\ parsed.v.t = "EDefFunc" /\ IsOk(last.r)
    THEN /\ OneEntryAdded(last.before.funcs, context.funcs, parsed.v.name)
         /\ context.vars = last.before.vars
    ELSE context = last.before

\* C25: a line whose root is not a definition leaves the session context
\* unchanged, and a successful variable or function definition adds exactly
\* one entry, for the defined name, and changes no other entry.
C25_OnlyDefinitionsExtendContext == last.op = "line" => FrameOf(LastParsed)

\* after `kx = 2`, the sum over px gave 6 and the context still binds kx
\* alone
C25_SumLeavesContext ==
    /\ submitted = <<Chars("kx = 2"), SumLine>>
    /\ last.r = Ok(Some(scalar(RInt(6))))
    /\ DOMAIN context.vars = {Chars("kx")}
    /\ context = last.before

\* C26: a sum gives the same value wherever it is evaluated: as a line of
\* its own, as the right-hand side of a variable definition, and in the body
\* of a function called from the right-hand side of a variable definition.
C26_SumValueIsTheSameEverywhere ==
    (last.op = "line" /\ Chars("kx") \notin DOMAIN last.before.vars
                      /\ Chars("px") \notin DOMAIN last.before.vars) =>
        /\ last.line = SumLine => last.r = Ok(Some(scalar(RInt(6))))
        /\ last.line = Chars("kx = ") \o SumLine => last.r = Ok(Some(scalar(RInt(6))))
        /\ (last.line = Chars("kx = w(1)") /\ Chars("w") \in DOMAIN last.before.funcs)
           => last.r = Ok(Some(scalar(RInt(6))))

\* the sum that gives 6 as a line is an EvalError as the right-hand side of
\* the definition of kx
C26_SumInDefinitionIsEvalError ==
    /\ submitted = <<SumLine, Chars("kx = ") \o SumLine>>
    /\ results = <<Ok(Some(scalar(RInt(6)))), Err("EvalError")>>
    /\ Chars("kx") \notin DOMAIN context.vars

\* C27: the bound variable of a sum is local to the reduction: the sum
\* succeeds whether or not the session binds a variable of the same name,
\* and afterwards the session's binding of that name is as it was.
C27_BoundVariableIsLocal ==
    (last.op = "line" /\ last.line = SumLine) =>
        /\ last.r = Ok(Some(scalar(RInt(6))))
        /\ context = last.before

\* after `px = 5` the sum over px is an EvalError
C27_SumOverBoundNameIsEvalError ==
    /\ submitted = <<Chars("px = 5"), SumLine>>
    /\ last.r = Err("EvalError")
    /\ context.vars[Chars("px")] = scalar(RInt(5))

\* C30: no name is bound both as a variable and as a function: defining a
\* function named as a bound variable, or a variable named as a bound
\* function, returns an EvalError.
C30_NoNameBoundTwice ==
    /\ DOMAIN context.vars \cap DOMAIN context.funcs = {}
    /\ (/\ last.op = "line"
        /\ IsOk(LastParsed)
        /\ \/ LastParsed.v.t = "EDefFunc" /\ LastParsed.v.name \in DOMAIN last.before.vars
           \/ LastParsed.v.t = "EDefVar" /\ LastParsed.v.name \in DOMAIN last.before.funcs)
       => last.r = Err("EvalError")

\* kx is the variable 2 and the function of nx
C30_VariableAndFunctionOfOneName ==
    /\ submitted = <<Chars("kx = 2"), Chars("kx(nx) = nx")>>
    /\ last.r = Ok(None)
    /\ Chars("kx") \in DOMAIN context.vars \cap DOMAIN context.funcs

(***************************************************************************)
(* compile_used_units (fields/units.rs:50-86) on every quantity of a       *)
(* bounded dimensionality, in both unit systems, one round at a time.      *)
(***************************************************************************)
MaxDecomposeDim == 4

\* the quantities one exponent step away from those of S
Grow(S) ==
    S \cup {[q EXCEPT ![i] = @ + d] : q \in S, i \in Axes, d \in {-1, 1}}

RECURSIVE QuantitiesUpTo(_)
QuantitiesUpTo(n) == IF n = 0 THEN {unitless} ELSE Grow(QuantitiesUpTo(n - 1))

InitDecompose ==
    /\ mode = "decompose"
    /\ submitted = <<>>
    /\ context = [vars |-> EmptyMap, funcs |-> EmptyMap]
    /\ results = <<>>
    /\ last = Idle
    /\ uacc \in {UnitVal_new(RInt(1), q) : q \in QuantitiesUpTo(MaxDecomposeDim)}
    /\ ulast = Idle
    /\ sumst = Idle
    /\ tex = Idle

DecomposeFrame ==
    UNCHANGED <<mode, submitted, context, results, last, uacc, sumst, tex>>

\* compile_used_units(quantity, system) is entered (fields/units.rs:51-56)
DecomposeStart ==
    /\ mode = "decompose"
    /\ ulast = Idle
    /\ \E system \in DOMAIN unit_system :
          ulast' = [op |-> "compile", system |-> system,
                    st |-> compile_begin(uacc.quantity)]
    /\ DecomposeFrame

\* one round of the while loop (fields/units.rs:58-80)
DecomposeRound ==
    /\ mode = "decompose"
    /\ ulast.op = "compile"
    /\ compile_continues(ulast.st)
    /\ \E st \in compile_round(ulast.st, unit_system[ulast.system]) :
          ulast' = [ulast EXCEPT !.st = st]
    /\ DecomposeFrame

\* the loop has ended: compile_used_units returns (fields/units.rs:81-85)
DecomposeEnd ==
    /\ mode = "decompose"
    /\ ulast.op = "compile"
    /\ ~compile_continues(ulast.st)
    /\ ulast' = [op |-> "compiled", system |-> ulast.system, st |-> ulast.st,
                 r |-> compile_end(ulast.st)]
    /\ DecomposeFrame

NextDecompose == DecomposeStart \/ DecomposeRound \/ DecomposeEnd

SpecDecompose == InitDecompose /\ [][NextDecompose]_vars

\* the component-wise sum of k times the unit's quantity over the pairs of used
RECURSIVE Composed(_, _)
Composed(used, names) ==
    IF names = {} THEN unitless
    ELSE LET n == CHOOSE x \in names : TRUE
         IN  QAdd(Quantity_powi(unit_map[n].quantity, used[n]), Composed(used, names \ {n}))

\* C28: decomposition is sound: when compile_used_units returns Ok, every
\* unit of the map belongs to the system, no unit was recorded in two
\* rounds (the map has one entry for each round), and the sum over the pairs
\* of k times the unit's quantity is the quantity that was decomposed.
C28_DecompositionIsSound ==
    (ulast.op = "compiled" /\ ulast.r.ok) =>
        /\ DOMAIN ulast.r.used \subseteq unit_system[ulast.system]
        /\ Cardinality(DOMAIN ulast.r.used) = ulast.st.iterations
        /\ Composed(ulast.r.used, DOMAIN ulast.r.used) = uacc.quantity

\* m/s^2 decomposed in two rounds into metre and second
C28_TwoRoundsSeen ==
    /\ ulast.op = "compiled"
    /\ ulast.r.ok
    /\ uacc.quantity = <<1, -2, 0, 0, 0, 0, 0>>
    /\ ulast.st.iterations = 2
    /\ ulast.r.used = (<<"m">> :> 1) @@ (<<"s">> :> -2)

\* C29: decomposition is deterministic: the outcome of compile_used_units
\* for a quantity and a system, the map or the failure, is the same for
\* every order in which the registry is iterated.
C29_DecompositionIsDeterministic ==
    ulast.op = "compiled" =>
        \A o \in compile_used_units(uacc.quantity, unit_system[ulast.system]) :
            IF ulast.r.ok THEN o.ok /\ o.used = ulast.r.used ELSE ~o.ok

\* metre times second: either unit can be taken first, with one outcome
C29_TieSeen ==
    /\ ulast.op = "compiled"
    /\ uacc.quantity = QAdd(length, time)
    /\ ulast.st.best_unit = <<"m">>
    /\ ulast.r.ok
    /\ ulast.r.used = (<<"m">> :> 1) @@ (<<"s">> :> 1)

====
